---- MODULE Spec2Model ----
(***************************************************************************)
(* Retrieval-and-annotation pipeline of the legal RAG system:              *)
(*   - HybridRetriever / BM25Retriever / VectorRetriever                   *)
(*     (src/retrieval/hybrid_retriever.py)                                 *)
(*   - LegalNER scanners and overlap resolution (src/ner/legal_ner.py)     *)
(*   - DarkZoneDetector (src/retrieval/dark_zone_detector.py)              *)
(*   - QueryEnhancer (src/retrieval/query_enhancer.py)                     *)
(*   - LegalChunker (src/retrieval/chunking.py)                            *)
(*   - DynamicLegalRAG (src/rag/dynamic_legal_rag.py)                      *)
(* One specification per component; all share the variables below, the    *)
(* variables of the other components keep their constructed values.        *)
(***************************************************************************)
EXTENDS Integers, Sequences, FiniteSets, TLC

VARIABLES
    \* ---- HybridRetriever.retrieve / _reciprocal_rank_fusion ----
    bm25_results,      \* lexical candidates, best first (chunk ids; the scores are ignored by the fusion)
    vector_results,    \* vector candidates, best first (chunk ids)
    top_k,             \* number of fused results asked for
    combined_results,  \* fused list of <<chunk_id, rrf_score>>, rrf_score a fraction <<num, den>>
    called,            \* the operation last called: "none", "fusion", "bm25.retrieve", "hybrid.retrieve", "build_index", "process", ...
    outcome,           \* how that call ended: "none", "returned", "raised"
    error,             \* the exception that escaped the call, "none" when it returned
    \* ---- LegalNER.extract_entities ----
    candidates,        \* the matches of the scanners, in the order extract_entities collects them
    entities,          \* the list extract_entities returns
    \* ---- DarkZoneDetector.detect_dark_zones / QueryEnhancer.enhance_query ----
    text,              \* the text handed to the call: its words, separated by single blanks
    dark_zones,        \* the list detect_dark_zones returns
    enhanced_query,    \* result['enhanced_query']: its whitespace tokens
    \* ---- LegalChunker ----
    document,          \* the text handed to chunk: its sentences, separated by single blanks
    chunk_outcome,     \* how the call of chunk ended: "none", "returned", "raised"
    chunks,            \* the list chunk returns
    \* ---- BM25Retriever object ----
    corpus,            \* self.corpus: the documents of the last build_index
    chunk_ids,         \* self.chunk_ids
    bm25,              \* self.bm25: "None", or the documents the BM25Okapi scorer was built from
    is_initialized,    \* self._is_initialized
    \* ---- collaborators and threads ----
    env,               \* how the embedder and the vector store behaved in the last hybrid retrieve
    writer,            \* a build_index in progress: its position and arguments
    reader,            \* a BM25Retriever.retrieve in progress: its position and locals
    \* ---- VectorRetriever: the store and its two searches ----
    store,             \* the rows of judgment_chunks, in the order a table scan returns them
    native,            \* outcome and result of the pgvector query of VectorRetriever.retrieve
    fallback,          \* outcome and result of VectorRetriever._retrieve_fallback
    \* ---- DynamicLegalRAG.process ----
    statutes,          \* the rows of legal_sections that have content: pairs <<act_name, section_number>>
    lookups,           \* the execute_one calls of the statute lookups, in call order
    chunk_contents,    \* the rows _get_chunk_contents returned (chunk ids)
    legal_sections_context,  \* the entries of the [LEGAL SECTIONS] block, <<>> for ""
    context_parts      \* RAGResult.context: the parts _assemble_context joins by newlines

rrfVars == <<bm25_results, vector_results, top_k, combined_results>>
callVars == <<called, outcome, error>>
nerVars == <<candidates, entities>>
docVars == <<text, dark_zones, enhanced_query, document, chunk_outcome, chunks>>
bm25Vars == <<corpus, chunk_ids, bm25, is_initialized>>
threadVars == <<writer, reader>>
vecVars == <<store, native, fallback>>
ragVars == <<statutes, lookups, chunk_contents, legal_sections_context, context_parts>>
vars == <<bm25_results, vector_results, top_k, combined_results, called, outcome, error,
          candidates, entities, text, dark_zones, enhanced_query, document, chunk_outcome, chunks,
          corpus, chunk_ids, bm25, is_initialized, env, writer, reader,
          store, native, fallback,
          statutes, lookups, chunk_contents, legal_sections_context, context_parts>>

----------------------------------------------------------------------------
(* Bounds and program constants *)

MaxLen == 3                 \* longest candidate list drawn for a retriever
MaxEnts == 3                \* most scanner matches drawn for one text
MaxPos == 4                 \* length of the text the matches lie in
MaxScanner == 4             \* matches are drawn from the first MaxScanner scanners
MaxDocs == 2                \* most documents handed to one build_index
MaxHits == 1                \* highest BM25 score a document gets for the query
MaxRows == 2                \* most rows of judgment_chunks seen by the vector search
MaxTopK == 2                \* largest top_k passed to a retrieve
MaxSentences == 4           \* most sentences of a document handed to the chunker
WordChars == 4              \* letters of a word of such a sentence
MaxPhrases == 3             \* most phrases a text handed to the annotators is written with
PadLength == 501            \* characters of the padding word of those texts
ShortPadLength == 490       \* characters of the shorter padding word
MaxMentions == 3            \* most phrases a text handed to DynamicLegalRAG.process is written with
CorpusChunkIds == {1, 2}    \* chunk ids of the documents that get indexed
StoreChunkIds == {2, 3}     \* chunk ids of the rows the vector search sees
Similarities == {30, 80}     \* cosine similarities of stored embeddings to the query, in hundredths
SimilarityThreshold == 50   \* HybridRetriever.__init__ similarity_threshold (0.5)
CandidateFactor == 5        \* "top_k * 5" in HybridRetriever.retrieve
ChunkIds == {1, 2, 3, 8}    \* chunk ids of the corpus (judgment_chunks.id)
RRF_K == 60                 \* HybridRetriever.__init__ rrf_k

----------------------------------------------------------------------------
(* Generic helpers *)

Range(s) == {s[i] : i \in DOMAIN s}

Min(a, b) == IF a < b THEN a ELSE b

SetMax(S) == CHOOSE x \in S : \A y \in S : y <= x

\* sequences of distinct elements of S, of length at most n
DistinctSeqs(S, n) ==
    UNION {{s \in [1..m -> S] : \A i, j \in 1..m : i # j => s[i] # s[j]} : m \in 0..n}

\* every order in which the elements of S can be enumerated
Perms(S) ==
    {s \in [1..Cardinality(S) -> S] : \A i, j \in 1..Cardinality(S) : i # j => s[i] # s[j]}

\* s[:n]
Take(s, n) == SubSeq(s, 1, Min(n, Len(s)))

\* Exact arithmetic on the float scores: a score is a fraction <<num, den>>, den > 0.
FracAdd(a, b) == <<a[1] * b[2] + b[1] * a[2], a[2] * b[2]>>

FracLess(a, b) == a[1] * b[2] < b[1] * a[2]

FracEq(a, b) == a[1] * b[2] = b[1] * a[2]

----------------------------------------------------------------------------
(* HybridRetriever._reciprocal_rank_fusion *)

\* rank mapping built by "for rank, (chunk_id, _) in enumerate(results, start=1)":
\* a later occurrence of a chunk id overwrites the earlier one
RankMapZeroBased(results) ==
    [c \in Range(results) |-> SetMax({i \in DOMAIN results : results[i] = c}) - 1]

RankMap(results) ==
    [c \in Range(results) |-> SetMax({i \in DOMAIN results : results[i] = c})]

\* score of one chunk id: 0.0, plus 1/(rank + k) for each mapping that holds it
RRFScoreLexicalOnly(chunk_id, bm25_ranks, vector_ranks) ==
    IF chunk_id \in DOMAIN bm25_ranks
    THEN FracAdd(<<0, 1>>, <<1, bm25_ranks[chunk_id] + RRF_K>>)
    ELSE <<0, 1>>

RRFScore(chunk_id, bm25_ranks, vector_ranks) ==
    LET s0 == <<0, 1>>
        s1 == IF chunk_id \in DOMAIN bm25_ranks
              THEN FracAdd(s0, <<1, bm25_ranks[chunk_id] + RRF_K>>)
              ELSE s0
        s2 == IF chunk_id \in DOMAIN vector_ranks
              THEN FracAdd(s1, <<1, vector_ranks[chunk_id] + RRF_K>>)
              ELSE s1
    IN s2

\* sorted(items, key=lambda x: x[1], reverse=True): a stable sort, items of
\* equal score keep the order they had in items
RECURSIVE SortAscending(_)
SortAscending(items) ==
    IF items = <<>> THEN <<>>
    ELSE LET rest == SortAscending(SubSeq(items, 1, Len(items) - 1))
             x == items[Len(items)]
             p == Cardinality({i \in DOMAIN rest : ~FracLess(x[2], rest[i][2])})
         IN SubSeq(rest, 1, p) \o <<x>> \o SubSeq(rest, p + 1, Len(rest))

RECURSIVE SortedByScoreDesc(_)
SortedByScoreDesc(items) ==
    IF items = <<>> THEN <<>>
    ELSE LET rest == SortedByScoreDesc(SubSeq(items, 1, Len(items) - 1))
             x == items[Len(items)]
             p == Cardinality({i \in DOMAIN rest : ~FracLess(rest[i][2], x[2])})
         IN SubSeq(rest, 1, p) \o <<x>> \o SubSeq(rest, p + 1, Len(rest))

\* set(bm25_ranks.keys()) | set(vector_ranks.keys())
AllChunkIds(lexical, vector) == Range(lexical) \cup Range(vector)

\* The fusion.  order is the order in which "for chunk_id in all_chunk_ids"
\* enumerates the set, which is also the insertion order of rrf_scores; the
\* language leaves the iteration order of a set unspecified.
ReciprocalRankFusion(lexical, vector, k, order) ==
    LET bm25_ranks == RankMap(lexical)
        vector_ranks == RankMap(vector)
        rrf_items == [i \in DOMAIN order |->
                        <<order[i], RRFScore(order[i], bm25_ranks, vector_ranks)>>]
    IN Take(SortedByScoreDesc(rrf_items), k)

----------------------------------------------------------------------------
(* LegalNER: entities and overlap resolution (src/ner/legal_ner.py) *)

\* the scanners in the order extract_entities runs them
ScannerOrder == <<"LEGAL_SECTION", "CASE_NUMBER", "COURT", "STATUTE", "LEGAL_TERM", "DATE">>

\* fixed confidence of each scanner's matches, in hundredths
Confidence(entity_type) ==
    CASE entity_type = "LEGAL_SECTION" -> 90
      [] entity_type = "CASE_NUMBER" -> 95
      [] entity_type = "COURT" -> 90
      [] entity_type = "STATUTE" -> 85
      [] entity_type = "LEGAL_TERM" -> 70
      [] entity_type = "DATE" -> 80

\* Entity(text, entity_type, start, end, confidence, metadata); a regular
\* expression match is never empty, so start < end
Entity(entity_type, start, end) ==
    [entity_type |-> entity_type, start |-> start, end |-> end,
     confidence |-> Confidence(entity_type)]

\* "not (entity.end <= existing.start or entity.start >= existing.end)"
Overlaps(entity, existing) ==
    ~(entity.end <= existing.start \/ entity.start >= existing.end)

\* sorted(entities, key=lambda e: (e.start, -e.confidence)), stable
SortKeyLess(a, b) ==
    \/ a.start < b.start
    \/ (a.start = b.start /\ a.confidence > b.confidence)

RECURSIVE SortedByStartConfidence(_)
SortedByStartConfidence(ents) ==
    IF ents = <<>> THEN <<>>
    ELSE LET rest == SortedByStartConfidence(SubSeq(ents, 1, Len(ents) - 1))
             x == ents[Len(ents)]
             p == Cardinality({i \in DOMAIN rest : ~SortKeyLess(x, rest[i])})
         IN SubSeq(rest, 1, p) \o <<x>> \o SubSeq(rest, p + 1, Len(rest))

\* sorted(filtered, key=lambda e: e.start), stable
RECURSIVE SortedByStart(_)
SortedByStart(ents) ==
    IF ents = <<>> THEN <<>>
    ELSE LET rest == SortedByStart(SubSeq(ents, 1, Len(ents) - 1))
             x == ents[Len(ents)]
             p == Cardinality({i \in DOMAIN rest : rest[i].start <= x.start})
         IN SubSeq(rest, 1, p) \o <<x>> \o SubSeq(rest, p + 1, Len(rest))

\* list.remove(x): drops the first element equal to x
RemoveFirst(s, x) ==
    LET i == CHOOSE n \in DOMAIN s : s[n] = x /\ \A m \in 1..(n - 1) : s[m] # x
    IN SubSeq(s, 1, i - 1) \o SubSeq(s, i + 1, Len(s))

\* index of the first element of filtered that entity overlaps, 0 if none
\* ("for existing in filtered: if not (...): overlap = True ... break")
FirstOverlap(filtered, entity) ==
    IF \E n \in DOMAIN filtered : Overlaps(entity, filtered[n])
    THEN CHOOSE n \in DOMAIN filtered :
            /\ Overlaps(entity, filtered[n])
            /\ \A m \in 1..(n - 1) : ~Overlaps(entity, filtered[m])
    ELSE 0

\* one iteration of "for entity in sorted_entities"
AcceptNeverEvicts(filtered, entity) ==
    IF FirstOverlap(filtered, entity) = 0 THEN Append(filtered, entity) ELSE filtered

AcceptWithoutRemove(filtered, entity) ==
    LET n == FirstOverlap(filtered, entity)
    IN IF n = 0
       THEN Append(filtered, entity)
       ELSE IF entity.confidence > filtered[n].confidence
            THEN Append(filtered, entity)
            ELSE filtered

Accept(filtered, entity) ==
    LET n == FirstOverlap(filtered, entity)
    IN IF n = 0
       THEN Append(filtered, entity)
       ELSE IF entity.confidence > filtered[n].confidence
            THEN Append(RemoveFirst(filtered, filtered[n]), entity)
            ELSE filtered

RECURSIVE WalkSorted(_, _)
WalkSorted(sorted_entities, n) ==
    IF n = 0 THEN <<>>
    ELSE Accept(WalkSorted(sorted_entities, n - 1), sorted_entities[n])

\* LegalNER._remove_overlaps
RemoveOverlaps(ents) ==
    IF ents = <<>> THEN <<>>
    ELSE LET sorted_entities == SortedByStartConfidence(ents)
         IN SortedByStart(WalkSorted(sorted_entities, Len(sorted_entities)))

NerIdle ==
    /\ candidates = <<>>
    /\ entities = <<>>

\* no text was handed to the detector, the enhancer or the chunker
DocIdle ==
    /\ text = <<>>
    /\ dark_zones = <<>>
    /\ enhanced_query = <<>>
    /\ document = <<>>
    /\ chunk_outcome = "none"
    /\ chunks = <<>>

----------------------------------------------------------------------------
(* Texts of the annotators (src/ner/legal_ner.py,                          *)
(* src/retrieval/dark_zone_detector.py, src/retrieval/query_enhancer.py).  *)
(* A text is a sequence of words separated by single blanks; character     *)
(* offsets, lengths, lower-casing, slices and pattern matches are computed *)
(* from the words.                                                         *)

\* the words the texts are written with; "xxx" is a run of PadLength letters
\* x, "yyy" a run of ShortPadLength letters y
Vocabulary ==
    {"xxx", "yyy", ".", "convicted", "under", "Section", "302", "of", "the", "Indian", "Penal",
     "Code", "IPC", "which", "states", "that", "means",
     "Criminal", "Appeal", "No.", "No", "12/2020"}

\* the letters of a word; "appeal" is the lower-cased legal term that
\* QueryEnhancer._extract_legal_terms returns
Spelling(w) ==
    CASE w = "xxx" -> [i \in 1..PadLength |-> "x"]
      [] w = "yyy" -> [i \in 1..ShortPadLength |-> "y"]
      [] w = "." -> <<".">>
      [] w = "of" -> <<"o", "f">>
      [] w = "302" -> <<"3", "0", "2">>
      [] w = "the" -> <<"t", "h", "e">>
      [] w = "IPC" -> <<"I", "P", "C">>
      [] w = "No." -> <<"N", "o", ".">>
      [] w = "No" -> <<"N", "o">>
      [] w = "Code" -> <<"C", "o", "d", "e">>
      [] w = "that" -> <<"t", "h", "a", "t">>
      [] w = "under" -> <<"u", "n", "d", "e", "r">>
      [] w = "Penal" -> <<"P", "e", "n", "a", "l">>
      [] w = "which" -> <<"w", "h", "i", "c", "h">>
      [] w = "means" -> <<"m", "e", "a", "n", "s">>
      [] w = "Indian" -> <<"I", "n", "d", "i", "a", "n">>
      [] w = "states" -> <<"s", "t", "a", "t", "e", "s">>
      [] w = "Appeal" -> <<"A", "p", "p", "e", "a", "l">>
      [] w = "appeal" -> <<"a", "p", "p", "e", "a", "l">>
      [] w = "Section" -> <<"S", "e", "c", "t", "i", "o", "n">>
      [] w = "12/2020" -> <<"1", "2", "/", "2", "0", "2", "0">>
      [] w = "Criminal" -> <<"C", "r", "i", "m", "i", "n", "a", "l">>
      [] w = "convicted" -> <<"c", "o", "n", "v", "i", "c", "t", "e", "d">>

\* len(word)
WordLength(w) == Len(Spelling(w))

\* word.lower()
Lower(w) ==
    CASE w = "Section" -> "section"
      [] w = "Indian" -> "indian"
      [] w = "Penal" -> "penal"
      [] w = "Code" -> "code"
      [] w = "IPC" -> "ipc"
      [] w = "Criminal" -> "criminal"
      [] w = "Appeal" -> "appeal"
      [] w = "No." -> "no."
      [] w = "No" -> "no"
      [] OTHER -> w

LowerAll(words) == [i \in DOMAIN words |-> Lower(words[i])]

\* offset of the first character of the i-th word of the text
RECURSIVE Offset(_, _)
Offset(words, i) ==
    IF i = 1 THEN 0 ELSE Offset(words, i - 1) + WordLength(words[i - 1]) + 1

\* offset just after the last character of the i-th word
EndOffset(words, i) == Offset(words, i) + WordLength(words[i])

\* len(text)
TextLength(words) == IF words = <<>> THEN 0 ELSE EndOffset(words, Len(words))

\* the phrases the texts are put together from
Phrases ==
    {<<"xxx">>, <<"yyy">>, <<"convicted", "under">>,
     <<"Section", "302", "of", "the", "Indian", "Penal", "Code">>,
     <<"IPC", "Section", "302">>, <<"which", "states", "that">>, <<"means">>,
     <<"Appeal">>, <<"Criminal", "Appeal", "No.", "12/2020">>,
     <<"Indian", "Penal", "Code">>}

RECURSIVE Flatten(_)
Flatten(phrases) ==
    IF phrases = <<>> THEN <<>> ELSE Head(phrases) \o Flatten(Tail(phrases))

\* texts of up to MaxPhrases phrases
PhraseTexts == {Flatten(ps) : ps \in UNION {[1..n -> Phrases] : n \in 0..MaxPhrases}}

\* "num_sentences: int = 5" of QueryEnhancer._extract_key_sentences
num_sentences == 5

\* texts of one sentence more than _extract_key_sentences keeps, each sentence
\* one phrase followed by a full stop
SentenceTexts ==
    {Flatten([i \in 1..(2 * (num_sentences + 1)) |->
                 IF i % 2 = 1 THEN ps[(i + 1) \div 2] ELSE <<".">>]) :
        ps \in [1..(num_sentences + 1) -> {<<"xxx">>, <<"IPC", "Section", "302">>}]}

Texts == PhraseTexts \cup SentenceTexts

\* One item of a pattern: a literal word (matched with re.IGNORECASE) or a
\* capture group.  The words of a pattern are joined by \s+.
ItemMatches(item, w) ==
    CASE item = "(\\d+[A-Z]?)" -> w = "302"
      [] item = "(\\d+\\/\\d+)" -> w = "12/2020"
      [] item = "no\\.?" -> Lower(w) \in {"no.", "no"}
      [] OTHER -> Lower(w) = item

\* the pattern matches the words starting with the i-th
MatchesAt(items, words, i) ==
    /\ i + Len(items) - 1 <= Len(words)
    /\ \A j \in 1..Len(items) : ItemMatches(items[j], words[i + j - 1])

\* re.finditer(pattern, text): the word indexes where the successive
\* non-overlapping matches start, left to right
RECURSIVE FindIter(_, _, _)
FindIter(items, words, i) ==
    IF i > Len(words) THEN <<>>
    ELSE IF MatchesAt(items, words, i)
         THEN <<i>> \o FindIter(items, words, i + Len(items))
         ELSE FindIter(items, words, i + 1)

\* _init_section_patterns: the patterns that a text over Vocabulary can
\* match, in the order of the list, each with its act name
section_patterns ==
    << [items |-> <<"section", "(\\d+[A-Z]?)", "of", "the", "indian", "penal", "code">>, act |-> "IPC"],
       [items |-> <<"section", "(\\d+[A-Z]?)", "ipc">>, act |-> "IPC"],
       [items |-> <<"ipc", "section", "(\\d+[A-Z]?)">>, act |-> "IPC"],
       [items |-> <<"under", "section", "(\\d+[A-Z]?)", "ipc">>, act |-> "IPC"] >>

\* _init_case_patterns, _init_statute_patterns, _init_legal_term_patterns,
\* restricted in the same way
case_number_patterns == << <<"criminal", "appeal", "no\\.?", "(\\d+\\/\\d+)">> >>

statute_patterns == << <<"indian", "penal", "code">> >>

legal_term_patterns == << <<"appeal">> >>

\* Entity(text, entity_type, start, end, confidence, metadata) of one match
TextEntity(entity_text, entity_type, words, i, n, metadata) ==
    [text |-> entity_text, entity_type |-> entity_type,
     start |-> Offset(words, i), end |-> EndOffset(words, i + n - 1),
     confidence |-> Confidence(entity_type), metadata |-> metadata]

\* match.group(0)
Group0(words, i, n) == SubSeq(words, i, i + n - 1)

\* the captured word of a match: match.group(1)
Group1(items, words, i) ==
    words[i + (CHOOSE j \in 1..Len(items) : items[j] \in {"(\\d+[A-Z]?)", "(\\d+\\/\\d+)"}) - 1]

\* the entities of the matches of one pattern
SectionMatches(pattern, words) ==
    LET starts == FindIter(pattern.items, words, 1)
    IN [m \in DOMAIN starts |->
           LET section_num == Group1(pattern.items, words, starts[m])
           IN TextEntity(<<pattern.act, "Section", section_num>>, "LEGAL_SECTION", words,
                         starts[m], Len(pattern.items),
                         {<<"act", pattern.act>>, <<"section_number", section_num>>})]

CaseNumberMatches(items, words) ==
    LET starts == FindIter(items, words, 1)
    IN [m \in DOMAIN starts |->
           TextEntity(<<Group1(items, words, starts[m])>>, "CASE_NUMBER", words, starts[m],
                      Len(items), {<<"full_match", Group0(words, starts[m], Len(items))>>})]

GroupMatches(entity_type, items, words) ==
    LET starts == FindIter(items, words, 1)
    IN [m \in DOMAIN starts |->
           TextEntity(Group0(words, starts[m], Len(items)), entity_type, words, starts[m],
                      Len(items), {})]

\* the matches of the patterns of one scanner, pattern after pattern
_extract_sections(words) ==
    Flatten([p \in DOMAIN section_patterns |-> SectionMatches(section_patterns[p], words)])

_extract_case_numbers(words) ==
    Flatten([p \in DOMAIN case_number_patterns |-> CaseNumberMatches(case_number_patterns[p], words)])

StatuteMatches(items, words) == GroupMatches("STATUTE", items, words)

_extract_statutes(words) ==
    Flatten([p \in DOMAIN statute_patterns |-> StatuteMatches(statute_patterns[p], words)])

LegalTermMatches(items, words) == GroupMatches("LEGAL_TERM", items, words)

_extract_legal_terms(words) ==
    Flatten([p \in DOMAIN legal_term_patterns |-> LegalTermMatches(legal_term_patterns[p], words)])

\* the candidates extract_entities collects before _remove_overlaps: no
\* court name and no date can be written with Vocabulary
Scan(words) ==
    _extract_sections(words) \o _extract_case_numbers(words) \o _extract_statutes(words)
        \o _extract_legal_terms(words)

\* LegalNER.extract_entities(text)
ExtractWithoutRemoveOverlaps(words) == Scan(words)

extract_entities(words) == RemoveOverlaps(Scan(words))

----------------------------------------------------------------------------
(* DarkZoneDetector (src/retrieval/dark_zone_detector.py).  A slice of the *)
(* text is the pair of its offsets.                                        *)

context_window_size == 500

\* _get_context_window: text[start:end]
_get_context_window(words, entity) ==
    [start |-> IF entity.start - context_window_size > 0
               THEN entity.start - context_window_size ELSE 0,
     end |-> Min(TextLength(words), entity.end + context_window_size)]

\* the words i .. i+n-1 lie wholly inside the slice
Inside(words, i, n, slice) ==
    /\ i + n - 1 <= Len(words)
    /\ Offset(words, i) >= slice.start
    /\ EndOffset(words, i + n - 1) <= slice.end

\* word indexes where the lower-cased slice spells the given lower-case words
\* joined by single blanks
Occurrences(needle, words, slice) ==
    {i \in DOMAIN words :
        /\ Inside(words, i, Len(needle), slice)
        /\ \A j \in 1..Len(needle) : Lower(words[i + j - 1]) = needle[j]}

SetMin(S) == CHOOSE x \in S : \A y \in S : x <= y

\* context_lower.find(section_text_lower): offset in the slice of the first
\* occurrence, -1 when there is none
Find(needle, words, slice) ==
    LET occ == Occurrences(needle, words, slice)
    IN IF occ = {} THEN -1 ELSE Offset(words, SetMin(occ)) - slice.start

\* match.start() of the matches of the explanation indicators that a text
\* over Vocabulary can match: which\s+states and section.*states (greedy:
\* one match, from the first "section" that has a "states" after it)
IndicatorStarts(words, slice) ==
    LET literal(needle) == {Offset(words, i) - slice.start : i \in Occurrences(needle, words, slice)}
        states == Occurrences(<<"states">>, words, slice)
        sections == {i \in Occurrences(<<"section">>, words, slice) : \E j \in states : j > i}
    IN literal(<<"which", "states">>)
         \cup (IF sections = {} THEN {} ELSE {Offset(words, SetMin(sections)) - slice.start})

Abs(n) == IF n < 0 THEN -n ELSE n

\* the character at the offset is a blank
IsBlank(words, offset) == \E i \in 1..(Len(words) - 1) : EndOffset(words, i) = offset

\* len(text[lo:hi].strip())
StrippedLength(words, lo, hi) ==
    IF hi <= lo THEN 0
    ELSE LET lead == IF IsBlank(words, lo) THEN 1 ELSE 0
             trail == IF hi - 1 > lo /\ IsBlank(words, hi - 1) THEN 1 ELSE 0
         IN hi - lo - lead - trail

\* _is_section_explained, the distance test anchored at the given position
ExplainedNear(words, slice, section_pos) ==
    \E start \in IndicatorStarts(words, slice) : Abs(start - section_pos) < 200

\* _is_section_explained, the test for a definition after the mention
DefinitionFollows(words, slice, section_pos, entity_text) ==
    /\ section_pos # -1
    /\ LET after == slice.start + section_pos + TextLength(entity_text)
       IN /\ StrippedLength(words, after, slice.end) > 100
          /\ \E i \in DOMAIN words :
                /\ words[i] = "means"
                /\ Offset(words, i) >= after
                /\ EndOffset(words, i) <= Min(after + 200, slice.end)

_is_section_explained(words, slice, section_entity) ==
    LET section_pos == Find(LowerAll(section_entity.text), words, slice)
    IN \/ ExplainedNear(words, slice, section_pos)
       \/ DefinitionFollows(words, slice, section_pos, section_entity.text)

\* _find_related_entities
_find_related_entities(all_entities, target_entity) ==
    LET context_start == IF target_entity.start - context_window_size > 0
                         THEN target_entity.start - context_window_size ELSE 0
    IN SelectSeq(all_entities,
                 LAMBDA entity :
                    /\ entity # target_entity
                    /\ context_start <= entity.start
                    /\ entity.start < target_entity.end + context_window_size)

\* dict.get(key, default) on the metadata of an entity
MetadataGet(metadata, key, default) ==
    IF \E kv \in metadata : kv[1] = key
    THEN (CHOOSE kv \in metadata : kv[1] = key)[2]
    ELSE default

\* _generate_resolution_suggestions
_generate_resolution_suggestions(section, related_entities) ==
    LET act == MetadataGet(section.metadata, "act", "Unknown")
        section_num == MetadataGet(section.metadata, "section_number", "")
        related_sections == SelectSeq(related_entities, LAMBDA e : e.entity_type = "LEGAL_SECTION")
    IN << <<"Retrieve full text of", act, "Section", section_num>> >>
       \o (IF related_sections = <<>> THEN <<>>
           ELSE << <<"Retrieve related sections:">>
                   \o [i \in 1..Min(3, Len(related_sections)) |-> related_sections[i].text] >>)
       \o << <<"Search for judgments citing", act, "Section", section_num>> >>

\* DarkZone(section_entity, context_window, position, related_entities, ...)
DarkZone(words, all_entities, section_entity) ==
    LET related == _find_related_entities(all_entities, section_entity)
    IN [section_entity |-> section_entity,
        context_window |-> _get_context_window(words, section_entity),
        position |-> <<section_entity.start, section_entity.end>>,
        related_entities |-> related,
        explanation_needed |-> TRUE,
        resolution_suggestions |-> _generate_resolution_suggestions(section_entity, related)]

\* DarkZoneDetector.detect_dark_zones(text), given the entities of the text
RECURSIVE DarkZonesOf(_, _, _)
DarkZonesOf(words, all_entities, section_entities) ==
    IF section_entities = <<>> THEN <<>>
    ELSE LET section_entity == Head(section_entities)
             context == _get_context_window(words, section_entity)
             rest == DarkZonesOf(words, all_entities, Tail(section_entities))
         IN IF _is_section_explained(words, context, section_entity)
            THEN rest
            ELSE <<DarkZone(words, all_entities, section_entity)>> \o rest

DetectOnCandidates(words) ==
    LET all_entities == Scan(words)
    IN DarkZonesOf(words, all_entities,
                   SelectSeq(all_entities, LAMBDA e : e.entity_type = "LEGAL_SECTION"))

detect_dark_zones(words) ==
    LET all_entities == extract_entities(words)
    IN DarkZonesOf(words, all_entities,
                   SelectSeq(all_entities, LAMBDA e : e.entity_type = "LEGAL_SECTION"))

----------------------------------------------------------------------------
(* QueryEnhancer (src/retrieval/query_enhancer.py).  A query is the        *)
(* sequence of its whitespace tokens, a token the sequence of its letters. *)

\* str.lower() of one letter
LowerLetter(c) ==
    CASE c = "x" -> "x"
      [] c = "y" -> "y"
      [] c = "S" -> "s"
      [] c = "I" -> "i"
      [] c = "P" -> "p"
      [] c = "C" -> "c"
      [] c = "A" -> "a"
      [] c = "N" -> "n"
      [] OTHER -> c

\* token.lower()
LowerToken(token) == [i \in DOMAIN token |-> LowerLetter(token[i])]

\* text.split() of a text given by its words
Tokens(words) == [i \in DOMAIN words |-> Spelling(words[i])]

\* a word up to its full stop: what re.split(r'[.!?]+', text) leaves of it
Stem(w) == IF w = "No." THEN <<"No">> ELSE IF w = "." THEN <<>> ELSE <<w>>

\* re.split(r'[.!?]+', text), stripped, the empty pieces dropped: the words of
\* each sentence; current holds the words since the last full stop
RECURSIVE SplitOnStops(_, _, _)
SplitOnStops(words, i, current) ==
    IF i > Len(words)
    THEN IF current = <<>> THEN <<>> ELSE <<current>>
    ELSE IF words[i] \in {".", "No."}
         THEN LET sentence == current \o Stem(words[i])
              IN (IF sentence = <<>> THEN <<>> ELSE <<sentence>>)
                 \o SplitOnStops(words, i + 1, <<>>)
         ELSE SplitOnStops(words, i + 1, Append(current, words[i]))

\* the legal keywords of _extract_key_sentences that a word contains
KeywordsIn(w) ==
    CASE w = "Section" -> {"section"}
      [] w = "Code" -> {"code"}
      [] w = "Appeal" -> {"appeal"}
      [] OTHER -> {}

\* twice the score _extract_key_sentences gives a sentence
SentenceScore(sentence) ==
    2 * Cardinality(UNION {KeywordsIn(sentence[i]) : i \in DOMAIN sentence})
    + (IF 10 <= Len(sentence) /\ Len(sentence) <= 30 THEN 2 ELSE 0)
    + Len(extract_entities(sentence))

\* scored_sentences.sort(key=lambda x: x[1], reverse=True), stable
RECURSIVE SortedBySentenceScore(_)
SortedBySentenceScore(sentences) ==
    IF sentences = <<>> THEN <<>>
    ELSE LET rest == SortedBySentenceScore(SubSeq(sentences, 1, Len(sentences) - 1))
             x == sentences[Len(sentences)]
             p == Cardinality({i \in DOMAIN rest : SentenceScore(rest[i]) >= SentenceScore(x)})
         IN SubSeq(rest, 1, p) \o <<x>> \o SubSeq(rest, p + 1, Len(rest))

\* QueryEnhancer._extract_key_sentences
_extract_key_sentences(words) ==
    Take(SortedBySentenceScore(SplitOnStops(words, 1, <<>>)), num_sentences)

\* the set QueryEnhancer._extract_legal_terms collects: of its terms only
\* "Appeal" can be written with Vocabulary
LegalTermSet(words) == {Lower(words[i]) : i \in {j \in DOMAIN words : Lower(words[j]) = "appeal"}}

\* the texts of the entities enhance_query adds to the query
HighConfidenceTexts(ents) ==
    LET high_conf_entities ==
            SelectSeq(ents, LAMBDA e : /\ e.confidence >= 80
                                       /\ e.entity_type \in {"LEGAL_SECTION", "CASE_NUMBER", "STATUTE"})
    IN [i \in DOMAIN high_conf_entities |-> high_conf_entities[i].text]

\* the tokens of text[lo:hi]: the words the slice holds, a word the slice
\* cuts contributing the letters inside
SliceTokens(words, lo, hi) ==
    LET held == SelectSeq([i \in DOMAIN words |-> i],
                          LAMBDA i : Offset(words, i) < hi /\ EndOffset(words, i) > lo)
    IN [n \in DOMAIN held |->
           LET i == held[n]
               from == IF lo > Offset(words, i) THEN lo - Offset(words, i) ELSE 0
               to == Min(hi, EndOffset(words, i)) - Offset(words, i)
           IN SubSeq(Spelling(words[i]), from + 1, to)]

\* the tokens of dz.section_entity.text and dz.context_window[:150].strip()
DarkZoneTokens(words, dz) ==
    Tokens(dz.section_entity.text)
    \o SliceTokens(words, dz.context_window.start,
                   Min(dz.context_window.start + 150, dz.context_window.end))

\* QueryEnhancer._deduplicate_query, on the tokens of the query
DeduplicateDroppingRepeats(tokens) ==
    LET word_lower == [i \in DOMAIN tokens |-> LowerToken(tokens[i])]
        unseen == SelectSeq([i \in DOMAIN tokens |-> i],
                            LAMBDA i : \A j \in DOMAIN tokens : j # i => word_lower[j] # word_lower[i])
    IN [n \in DOMAIN unseen |-> tokens[unseen[n]]]

_deduplicate_query(tokens) ==
    LET word_lower == [i \in DOMAIN tokens |-> LowerToken(tokens[i])]
        \* "if word_lower not in seen": no earlier token has the same lower case
        unseen == SelectSeq([i \in DOMAIN tokens |-> i],
                            LAMBDA i : \A j \in 1..(i - 1) : word_lower[j] # word_lower[i])
    IN [n \in DOMAIN unseen |-> tokens[unseen[n]]]

\* " ".join(query_parts).split() for the parts enhance_query collects;
\* legal_terms is the list made of the set of legal terms
QueryParts(words, ents, zones, legal_terms) ==
    (IF TextLength(words) > 500
     THEN Tokens(Flatten(_extract_key_sentences(words)))
     ELSE Tokens(words))
    \o Tokens(Flatten(HighConfidenceTexts(ents)))
    \o Flatten([n \in DOMAIN zones |-> DarkZoneTokens(words, zones[n])])
    \o Tokens(legal_terms)

\* result['enhanced_query'] of QueryEnhancer.enhance_query(text)
enhance_query(words, legal_terms) ==
    _deduplicate_query(QueryParts(words, extract_entities(words), detect_dark_zones(words),
                                  legal_terms))

----------------------------------------------------------------------------
(* LegalChunker (src/retrieval/chunking.py) with the default sizes.  A     *)
(* document is the sequence of its sentences, separated by single blanks;  *)
(* a sentence is a number of words of WordChars letters, the last followed *)
(* by a full stop, after an optional section marker ("FACTS" or "HELD").   *)
(* Tokens are counted as _count_tokens does when self.tokenizer is None.   *)

chunk_size == 512

chunk_overlap == 50

min_chunk_size == 100


\* the words a sentence of a document may have
SentenceSizes == {15, 110, 400}

\* a sentence opens with no marker, with "FACTS" (section_patterns['facts'])
\* or with "HELD" (section_patterns['analysis'])
Markers == {"none", "facts", "analysis"}

Sentences == [words : SentenceSizes, marker : Markers]

JudgmentTexts == UNION {[1..n -> Sentences] : n \in 0..MaxSentences}

\* len(match.group(0)) of a section marker
MarkerLength(marker) == IF marker = "facts" THEN 5 ELSE 4

\* len(sentence.split())
SentenceWords(sentence) == sentence.words + (IF sentence.marker = "none" THEN 0 ELSE 1)

\* len(sentence)
SentenceLength(sentence) ==
    (IF sentence.marker = "none" THEN 0 ELSE MarkerLength(sentence.marker) + 1)
    + (WordChars + 1) * sentence.words

\* len(' '.join(sentences))
RECURSIVE JoinedLength(_)
JoinedLength(sentences) ==
    IF sentences = <<>> THEN 0
    ELSE IF Len(sentences) = 1 THEN SentenceLength(sentences[1])
    ELSE SentenceLength(Head(sentences)) + 1 + JoinedLength(Tail(sentences))

\* len(' '.join(sentences).split())
RECURSIVE JoinedWords(_)
JoinedWords(sentences) ==
    IF sentences = <<>> THEN 0 ELSE SentenceWords(Head(sentences)) + JoinedWords(Tail(sentences))

\* _count_tokens(' '.join(sentences)): int(len(text.split()) * 1.3)
_count_tokens(sentences) == (13 * JoinedWords(sentences)) \div 10

\* offset of the first character of the i-th sentence of the document
SentenceStart(doc, i) == IF i = 1 THEN 0 ELSE JoinedLength(SubSeq(doc, 1, i - 1)) + 1

\* the section of the marker of the i-th sentence: its text is everything
\* after the marker, to the end of the document
Section(doc, i) ==
    [type |-> doc[i].marker,
     start |-> SentenceStart(doc, i),
     end |-> SentenceStart(doc, i) + MarkerLength(doc[i].marker),
     text |-> <<[words |-> doc[i].words, marker |-> "none"]>> \o SubSeq(doc, i + 1, Len(doc))]

\* "Clean up overlapping sections": a section is kept when it starts more
\* than 500 characters after the section kept last
RECURSIVE Cleaned(_, _)
Cleaned(sections, n) ==
    IF n = 0 THEN <<>>
    ELSE LET cleaned == Cleaned(sections, n - 1)
         IN IF n = 1 \/ sections[n].start > cleaned[Len(cleaned)].start + 500
            THEN Append(cleaned, sections[n])
            ELSE cleaned

\* LegalChunker._detect_sections: the matches of all patterns sorted by
\* position, then cleaned
_detect_sections(doc) ==
    LET marked == SelectSeq([i \in DOMAIN doc |-> i], LAMBDA i : doc[i].marker # "none")
        sections == [n \in DOMAIN marked |-> Section(doc, marked[n])]
    IN Cleaned(sections, Len(sections))

\* LegalChunker._get_overlap_text: the last elements of the chunk that fit
\* in chunk_overlap tokens, walking back from element i
RECURSIVE OverlapFrom(_, _, _)
OverlapFrom(chunk_sentences, i, overlap_tokens) ==
    IF i = 0 THEN <<>>
    ELSE LET sent_tokens == _count_tokens(chunk_sentences[i])
         IN IF overlap_tokens + sent_tokens <= chunk_overlap
            THEN OverlapFrom(chunk_sentences, i - 1, overlap_tokens + sent_tokens)
                    \o chunk_sentences[i]
            ELSE <<>>

_get_overlap_text(chunk_sentences) ==
    IF Len(chunk_sentences) < 2 THEN <<>>
    ELSE OverlapFrom(chunk_sentences, Len(chunk_sentences), 0)

\* Chunk(text, start_pos, end_pos, section_type): the chunk made of the
\* elements collected; section and seeded note the section the chunk was
\* cut from and whether it opens with overlap text
Chunk(current_chunk, current_start, section_type, section, seeded) ==
    LET chunk_text == Flatten(current_chunk)
    IN [text |-> chunk_text, start |-> current_start,
        end |-> current_start + JoinedLength(chunk_text),
        section_type |-> section_type, section |-> section, seeded |-> seeded]

\* "current_start = chunk.end_pos - len(overlap_text) if overlap_text else chunk.end_pos"
StartAfterGap(chunk, overlap_text) == chunk.end + 1

StartOfNext(chunk, overlap_text) ==
    IF overlap_text # <<>> THEN chunk.end - JoinedLength(overlap_text) ELSE chunk.end

\* one iteration of "for sentence in sentences"; the elements of
\* current_chunk are sentences and overlap texts
AddSentence(st, sentence, section_type, section) ==
    LET sentence_tokens == _count_tokens(<<sentence>>)
    IN IF st.current_tokens + sentence_tokens > chunk_size /\ st.current_chunk # <<>>
       THEN LET chunk == Chunk(st.current_chunk, st.current_start, section_type, section, st.seeded)
                overlap_text == _get_overlap_text(st.current_chunk)
                overlap_tokens == _count_tokens(overlap_text)
            IN [chunks |-> Append(st.chunks, chunk),
                current_chunk |-> (IF overlap_text # <<>> THEN <<overlap_text>> ELSE <<>>)
                                     \o << <<sentence>> >>,
                current_tokens |-> overlap_tokens + sentence_tokens,
                current_start |-> StartOfNext(chunk, overlap_text),
                seeded |-> overlap_text # <<>>]
       ELSE [st EXCEPT !.current_chunk = Append(@, <<sentence>>),
                       !.current_tokens = @ + sentence_tokens]

RECURSIVE AddSentences(_, _, _, _, _)
AddSentences(st, sentences, n, section_type, section) ==
    IF n = 0 THEN st
    ELSE AddSentence(AddSentences(st, sentences, n - 1, section_type, section),
                     sentences[n], section_type, section)

\* "Add remaining chunk"
RemainingAlways(st, section_type, section) ==
    Append(st.chunks, Chunk(st.current_chunk, st.current_start, section_type, section, st.seeded))

Remaining(st, section_type, section) ==
    IF st.current_chunk # <<>> /\ _count_tokens(Flatten(st.current_chunk)) >= min_chunk_size
    THEN Append(st.chunks,
                Chunk(st.current_chunk, st.current_start, section_type, section, st.seeded))
    ELSE st.chunks

\* LegalChunker._chunk_text(text, section_type, start_offset), the text given
\* by the sentences _split_sentences finds in it
_chunk_text(sentences, section_type, start_offset, section) ==
    LET st == [chunks |-> <<>>, current_chunk |-> <<>>, current_tokens |-> 0,
               current_start |-> start_offset, seeded |-> FALSE]
    IN Remaining(AddSentences(st, sentences, Len(sentences), section_type, section),
                 section_type, section)

\* LegalChunker.chunk(text)
chunk(doc) ==
    LET sections == _detect_sections(doc)
    IN IF sections # <<>>
       THEN Flatten([n \in DOMAIN sections |->
                        _chunk_text(sections[n].text, sections[n].type, sections[n].start, n)])
       ELSE _chunk_text(doc, "None", 0, 0)

----------------------------------------------------------------------------
(* BM25Retriever and VectorRetriever (src/retrieval/hybrid_retriever.py)   *)

\* A document is the content of one row of judgment_chunks: chunk is the id
\* of that row, hits the score BM25Okapi.get_scores gives the document for
\* the query (0: the document holds no query term).
Documents == [chunk : CorpusChunkIds, hits : 0..MaxHits]

\* the document lists and chunk-id lists a caller can hand to build_index
DocumentLists ==
    {d \in UNION {[1..m -> Documents] : m \in 0..MaxDocs} :
        \A i, j \in DOMAIN d : i # j => d[i].chunk # d[j].chunk}

ChunkIdLists == DistinctSeqs(CorpusChunkIds, MaxDocs)

\* the ids the callers read together with the contents:
\* "documents = [r['content'] ...]; chunk_ids = [r['id'] ...]"
IdsOf(documents) == [i \in DOMAIN documents |-> documents[i].chunk]

\* BM25Retriever.__init__
BM25Constructed ==
    /\ corpus = <<>>
    /\ chunk_ids = <<>>
    /\ bm25 = "None"
    /\ is_initialized = FALSE

NoFaults == [encode_ok |-> TRUE, native_ok |-> TRUE, fallback_ok |-> TRUE]

\* the behaviours of the collaborators during one vector retrieve: a step that
\* is not reached (the store after a failed encode, the fallback after a
\* working native query) is left TRUE
Faults ==
    {f \in [encode_ok : BOOLEAN, native_ok : BOOLEAN, fallback_ok : BOOLEAN] :
        /\ ~f.encode_ok => (f.native_ok /\ f.fallback_ok)
        /\ f.native_ok => f.fallback_ok}

IdleWriter == [pc |-> "idle", documents |-> <<>>, chunk_ids |-> <<>>]

IdleReader == [pc |-> "idle", scored |-> <<>>, top_indices |-> <<>>, results |-> <<>>]

ThreadsIdle ==
    /\ env = NoFaults
    /\ writer = IdleWriter
    /\ reader = IdleReader

NotSearched == [outcome |-> "none", results |-> <<>>]

\* no vector search was run on its own
VectorIdle ==
    /\ store = <<>>
    /\ native = NotSearched
    /\ fallback = NotSearched

\* DynamicLegalRAG.process was not called
RagIdle ==
    /\ statutes = {}
    /\ lookups = <<>>
    /\ chunk_contents = <<>>
    /\ legal_sections_context = <<>>
    /\ context_parts = <<>>

\* self.bm25.get_scores(tokenized_query): one score per document of the scorer
Scores(scorer) == [i \in DOMAIN scorer |-> scorer[i].hits]

\* np.argsort(scores)[::-1][:top_k]: indices by ascending score (equal scores
\* in index order), reversed, cut to top_k
RECURSIVE ArgsortAscending(_, _)
ArgsortAscending(scores, n) ==
    IF n = 0 THEN <<>>
    ELSE LET rest == ArgsortAscending(scores, n - 1)
             p == Cardinality({i \in DOMAIN rest : scores[rest[i]] <= scores[n]})
         IN SubSeq(rest, 1, p) \o <<n>> \o SubSeq(rest, p + 1, Len(rest))

Reversed(s) == [i \in DOMAIN s |-> s[Len(s) + 1 - i]]

TopIndices(scores, k) == Take(Reversed(ArgsortAscending(scores, Len(scores))), k)

\* the indices of top_indices that pass "if scores[idx] > 0"
PositiveOnly(scores, top_indices) == SelectSeq(top_indices, LAMBDA idx : scores[idx] > 0)

\* BM25Retriever.retrieve past the initialisation check, on a scorer and a
\* chunk-id list: the candidates, or the IndexError of "self.chunk_ids[idx]"
BM25Candidates(scorer, ids, k) ==
    LET scores == Scores(scorer)
        kept == PositiveOnly(scores, TopIndices(scores, k))
    IN IF \E n \in DOMAIN kept : kept[n] > Len(ids)
       THEN [raised |-> "IndexError", results |-> <<>>]
       ELSE [raised |-> "none", results |-> [n \in DOMAIN kept |-> ids[kept[n]]]]

\* A row of judgment_chunks as the vector search sees it: its id and the
\* cosine similarity of its embedding to the query embedding.
Rows == [id : StoreChunkIds, similarity : Similarities]

RowLists ==
    {rows \in UNION {[1..m -> Rows] : m \in 0..MaxRows} :
        \A i, j \in DOMAIN rows : i # j => rows[i].id # rows[j].id}

\* stable sort of rows by similarity descending
RECURSIVE SortedBySimilarityDesc(_)
SortedBySimilarityDesc(rows) ==
    IF rows = <<>> THEN <<>>
    ELSE LET rest == SortedBySimilarityDesc(SubSeq(rows, 1, Len(rows) - 1))
             x == rows[Len(rows)]
             p == Cardinality({i \in DOMAIN rest : rest[i].similarity >= x.similarity})
         IN SubSeq(rest, 1, p) \o <<x>> \o SubSeq(rest, p + 1, Len(rest))

\* the rows that pass the similarity floor, best first, cut to k: the result
\* of the pgvector query and of _retrieve_fallback
SimilarRows(rows, k) ==
    LET passing == SelectSeq(rows, LAMBDA r : r.similarity >= SimilarityThreshold)
        best == Take(SortedBySimilarityDesc(passing), k)
    IN [i \in DOMAIN best |-> best[i].id]

\* VectorRetriever.retrieve: encode the query (outside any try), run the
\* pgvector query, on any exception run _retrieve_fallback, whose own
\* exception escapes
VectorRetrieve(rows, k, faults) ==
    IF ~faults.encode_ok
    THEN [raised |-> "EmbedderError", results |-> <<>>]
    ELSE IF faults.native_ok
         THEN [raised |-> "none", results |-> SimilarRows(rows, k)]
         ELSE IF faults.fallback_ok
              THEN [raised |-> "none", results |-> SimilarRows(rows, k)]
              ELSE [raised |-> "StoreError", results |-> <<>>]

----------------------------------------------------------------------------
(* Specification of the fusion alone: the inputs are drawn in Init *)

InitRRF ==
    /\ bm25_results \in DistinctSeqs(ChunkIds, MaxLen)
    /\ vector_results \in DistinctSeqs(ChunkIds, MaxLen)
    /\ top_k \in 1..MaxLen
    /\ combined_results = <<>>
    /\ called = "none"
    /\ outcome = "none"
    /\ error = "none"
    /\ NerIdle
    /\ DocIdle
    /\ BM25Constructed
    /\ ThreadsIdle
    /\ VectorIdle
    /\ RagIdle

Fuse ==
    /\ called = "none"
    /\ \E order \in Perms(AllChunkIds(bm25_results, vector_results)) :
          combined_results' = ReciprocalRankFusion(bm25_results, vector_results, top_k, order)
    /\ called' = "fusion"
    /\ outcome' = "returned"
    /\ UNCHANGED <<bm25_results, vector_results, top_k, error>>
    /\ UNCHANGED <<nerVars, docVars, bm25Vars, env, vecVars, ragVars, threadVars>>

NextRRF == Fuse

SpecRRF == InitRRF /\ [][NextRRF]_vars

----------------------------------------------------------------------------
(* Claims about the fusion (checked under SpecRRF) *)

FusionReturned == called = "fusion" /\ outcome = "returned"

\* position of chunk id c in the fused result, 0 when it is not returned
FusedPos(c) ==
    IF \E i \in DOMAIN combined_results : combined_results[i][1] = c
    THEN CHOOSE i \in DOMAIN combined_results : combined_results[i][1] = c
    ELSE 0

\* 1-indexed position of c in a candidate list
PosIn(list, c) == CHOOSE i \in DOMAIN list : list[i] = c

\* what the retriever that produced list owes to chunk c: 1/(rank + k), or 0
Contribution(list, c) ==
    IF c \in Range(list) THEN <<1, PosIn(list, c) + RRF_K>> ELSE <<0, 1>>

\* chunk a is 1st lexically and 3rd in the vector list, chunk b 2nd and 1st
ScenarioAB(a, b) ==
    /\ Len(bm25_results) >= 2 /\ Len(vector_results) >= 3
    /\ bm25_results[1] = a /\ vector_results[3] = a
    /\ bm25_results[2] = b /\ vector_results[1] = b

\* C1: the fused result is ordered by RRF score descending (of two returned
\* chunks with different scores the higher-scored one comes first); with k=60
\* a chunk at lexical rank 1 and vector rank 3 is returned below the chunk at
\* lexical rank 2 and vector rank 1.
C1_FusedOrderedByScoreDesc ==
    FusionReturned =>
        /\ \A i, j \in DOMAIN combined_results :
              FracLess(combined_results[j][2], combined_results[i][2]) => i < j
        /\ \A a, b \in ChunkIds :
              (ScenarioAB(a, b) /\ FusedPos(a) > 0) =>
                  (FusedPos(b) > 0 /\ FusedPos(b) < FusedPos(a))

C1_Witness ==
    /\ FusionReturned
    /\ \E a, b \in ChunkIds :
          /\ ScenarioAB(a, b)
          /\ FusedPos(b) = 1 /\ FusedPos(a) = 2
          /\ FracEq(combined_results[2][2], FracAdd(<<1, 61>>, <<1, 63>>))
          /\ FracEq(combined_results[1][2], FracAdd(<<1, 62>>, <<1, 61>>))

\* C2: any two chunks of the fused result with equal RRF score appear in
\* ascending chunk-id order.
C2_TiesInAscendingChunkId ==
    FusionReturned =>
        \A i, j \in DOMAIN combined_results :
            (i < j /\ FracEq(combined_results[i][2], combined_results[j][2]))
                => combined_results[i][1] < combined_results[j][1]

\* C3: the score of every fused chunk is the sum of 1/(rank + k) over exactly
\* the candidate lists that contain it (a list without it contributes 0); a
\* chunk in one list only at rank r scores exactly 1/(r+k), strictly less than
\* 2/(r+k), the score of the rank r in both lists.
C3_ScoreIsSumOfReciprocalRanks ==
    FusionReturned =>
        \A i \in DOMAIN combined_results :
            LET c == combined_results[i][1]
                score == combined_results[i][2]
            IN /\ c \in Range(bm25_results) \cup Range(vector_results)
               /\ FracEq(score, FracAdd(Contribution(bm25_results, c),
                                        Contribution(vector_results, c)))
               /\ (c \in Range(bm25_results) /\ c \notin Range(vector_results)) =>
                     /\ FracEq(score, <<1, PosIn(bm25_results, c) + RRF_K>>)
                     /\ FracLess(score, <<2, PosIn(bm25_results, c) + RRF_K>>)
               /\ (c \in Range(vector_results) /\ c \notin Range(bm25_results)) =>
                     /\ FracEq(score, <<1, PosIn(vector_results, c) + RRF_K>>)
                     /\ FracLess(score, <<2, PosIn(vector_results, c) + RRF_K>>)

\* a chunk found by the vector retriever alone (rank 2) is returned next to a
\* chunk found by both retrievers
C3_Witness ==
    /\ FusionReturned
    /\ \E i, j \in DOMAIN combined_results :
          /\ combined_results[i][1] \notin Range(bm25_results)
          /\ PosIn(vector_results, combined_results[i][1]) = 2
          /\ FracEq(combined_results[i][2], <<1, 62>>)
          /\ combined_results[j][1] \in Range(bm25_results) \cap Range(vector_results)

\* C4: fusing a candidate list with itself (same sequence of distinct chunk
\* ids in both lists, no longer than top_k) returns the chunks in the order of
\* the list, the chunk at rank r scoring 2/(r+k).
C4_SelfFusionPreservesOrder ==
    (FusionReturned /\ bm25_results = vector_results /\ Len(bm25_results) <= top_k) =>
        /\ Len(combined_results) = Len(bm25_results)
        /\ \A r \in DOMAIN combined_results :
              /\ combined_results[r][1] = bm25_results[r]
              /\ FracEq(combined_results[r][2], <<2, r + RRF_K>>)

C4_Witness ==
    /\ FusionReturned
    /\ bm25_results = vector_results
    /\ Len(bm25_results) = 3 /\ top_k = 3
    /\ bm25_results[1] > bm25_results[2]
    /\ [r \in 1..3 |-> combined_results[r][1]] = bm25_results

----------------------------------------------------------------------------
(* Specification of entity extraction: the scanners' matches are drawn in  *)
(* Init, in scanner order; ExtractEntities resolves the overlaps.  The      *)
(* patterns of one scanner match different phrasings, so no two matches of *)
(* one scanner have the same span.                                         *)

Spans == {sp \in (0..MaxPos) \X (0..MaxPos) : sp[1] < sp[2]}

\* scanner indexes of n matches collected scanner after scanner
ScannerRuns(n) ==
    {t \in [1..n -> 1..Min(MaxScanner, Len(ScannerOrder))] :
        \A i \in 1..(n - 1) : t[i] <= t[i + 1]}

InitNER ==
    /\ \E n \in 0..MaxEnts :
          \E sp \in [1..n -> Spans], t \in ScannerRuns(n) :
              /\ \A i, j \in 1..n : (i # j /\ t[i] = t[j]) => sp[i] # sp[j]
              /\ candidates = [i \in 1..n |-> Entity(ScannerOrder[t[i]], sp[i][1], sp[i][2])]
    /\ entities = <<>>
    /\ DocIdle
    /\ called = "none"
    /\ outcome = "none"
    /\ error = "none"
    /\ bm25_results = <<>>
    /\ vector_results = <<>>
    /\ top_k = 1
    /\ combined_results = <<>>
    /\ BM25Constructed
    /\ ThreadsIdle
    /\ VectorIdle
    /\ RagIdle

ExtractEntities ==
    /\ called = "none"
    /\ entities' = RemoveOverlaps(candidates)
    /\ called' = "extract_entities"
    /\ outcome' = "returned"
    /\ UNCHANGED <<candidates, error>>
    /\ UNCHANGED <<rrfVars, docVars, bm25Vars, env, vecVars, ragVars, threadVars>>

NextNER == ExtractEntities

SpecNER == InitNER /\ [][NextNER]_vars

----------------------------------------------------------------------------
(* Claims about overlap resolution (checked under SpecNER) *)

Extracted == called = "extract_entities" /\ outcome = "returned"

InOutput(e) == e \in Range(entities)

\* the candidates in the stable (start ascending, confidence descending) order
SortedCandidates == SortedByStartConfidence(candidates)

\* C9: no two entities returned by extract_entities overlap: for all i # j,
\* entities[i].end <= entities[j].start or entities[j].end <= entities[i].start.
C9_OutputEntitiesNeverOverlap ==
    Extracted =>
        \A i, j \in DOMAIN entities :
            i # j => (entities[i].end <= entities[j].start
                      \/ entities[j].end <= entities[i].start)

\* an accepted entity was evicted by a higher-confidence one and the output
\* still holds two entities
C9_Witness ==
    /\ Extracted
    /\ Len(entities) = 2
    /\ \E i, j \in DOMAIN candidates :
          /\ Overlaps(candidates[i], candidates[j])
          /\ candidates[i].start < candidates[j].start
          /\ candidates[i].confidence < candidates[j].confidence
          /\ InOutput(candidates[j]) /\ ~InOutput(candidates[i])

\* C10 as claimed: for any two overlapping candidates the output never holds
\* the lower-confidence one while the strictly higher-confidence one is
\* dropped, and of two overlapping candidates of equal confidence the first in
\* the stable order is the one kept.
C10_HigherConfidenceWinsEveryOverlap ==
    Extracted =>
        \A i, j \in DOMAIN SortedCandidates :
            LET a == SortedCandidates[i]
                b == SortedCandidates[j]
            IN (i # j /\ Overlaps(a, b)) =>
                  /\ a.confidence > b.confidence => ~(InOutput(b) /\ ~InOutput(a))
                  /\ (a.confidence = b.confidence /\ i < j) => ~(InOutput(b) /\ ~InOutput(a))

\* C10 amended: when the output holds a candidate b while an overlapping
\* candidate a of strictly higher confidence, or of equal confidence and
\* earlier in the stable order, is dropped, then a lost to a third candidate
\* that overlaps a and has at least a's confidence.
C10_HigherConfidenceWinsUnlessBeatenByThird ==
    Extracted =>
        \A i, j \in DOMAIN SortedCandidates :
            LET a == SortedCandidates[i]
                b == SortedCandidates[j]
            IN (/\ i # j
                /\ Overlaps(a, b)
                /\ (a.confidence > b.confidence \/ (a.confidence = b.confidence /\ i < j))
                /\ InOutput(b) /\ ~InOutput(a))
               => \E n \in DOMAIN SortedCandidates \ {i, j} :
                     /\ Overlaps(SortedCandidates[n], a)
                     /\ SortedCandidates[n].confidence >= a.confidence

\* a later candidate of strictly higher confidence evicted the accepted one,
\* and an equal-confidence pair was settled for the first in the stable order
C10_Witness ==
    /\ Extracted
    /\ Len(SortedCandidates) = 3
    /\ Overlaps(SortedCandidates[1], SortedCandidates[2])
    /\ SortedCandidates[1].confidence < SortedCandidates[2].confidence
    /\ SortedCandidates[1].start < SortedCandidates[2].start
    /\ InOutput(SortedCandidates[2]) /\ ~InOutput(SortedCandidates[1])
    /\ Overlaps(SortedCandidates[2], SortedCandidates[3])
    /\ SortedCandidates[2].confidence = SortedCandidates[3].confidence
    /\ ~InOutput(SortedCandidates[3])

\* C29: every candidate that is absent from the output overlaps at least one
\* entity of the output: no candidate is lost to an entity that was itself
\* evicted later.
C29_DroppedCandidateOverlapsAnOutputEntity ==
    Extracted =>
        \A i \in DOMAIN candidates :
            ~InOutput(candidates[i]) =>
                \E n \in DOMAIN entities : Overlaps(candidates[i], entities[n])

----------------------------------------------------------------------------
(* Specification of the retrievers used from one thread: build_index,      *)
(* BM25Retriever.retrieve and HybridRetriever.retrieve are whole calls.    *)

InitHybrid ==
    /\ bm25_results = <<>>
    /\ vector_results = <<>>
    /\ top_k = 1
    /\ combined_results = <<>>
    /\ called = "none"
    /\ outcome = "none"
    /\ error = "none"
    /\ NerIdle
    /\ DocIdle
    /\ BM25Constructed
    /\ ThreadsIdle
    /\ VectorIdle
    /\ RagIdle

\* the argument pairs of build_index: the ids read with the documents, or a
\* chunk-id list of another length
BuildArguments ==
    {a \in DocumentLists \X ChunkIdLists : a[2] = IdsOf(a[1]) \/ Len(a[2]) # Len(a[1])}

\* the BM25Retriever object
Retriever == [corpus |-> corpus, chunk_ids |-> chunk_ids, bm25 |-> bm25,
              is_initialized |-> is_initialized]

\* BM25Retriever.build_index(documents, chunk_ids): the exception it raises
\* and the object it leaves.  BM25Okapi divides by the corpus size, so it
\* raises on an empty document list, after self.corpus and self.chunk_ids
\* were assigned.
BuildIndexAssigningFirst(self, documents, ids) ==
    IF Len(documents) # Len(ids)
    THEN [raised |-> "ValueError",
          self |-> [self EXCEPT !.corpus = documents, !.chunk_ids = ids]]
    ELSE IF documents = <<>>
         THEN [raised |-> "ZeroDivisionError",
               self |-> [self EXCEPT !.corpus = documents, !.chunk_ids = ids]]
         ELSE [raised |-> "none",
               self |-> [corpus |-> documents, chunk_ids |-> ids, bm25 |-> documents,
                         is_initialized |-> TRUE]]

build_index(self, documents, ids) ==
    IF Len(documents) # Len(ids)
    THEN [raised |-> "ValueError", self |-> self]
    ELSE IF documents = <<>>
         THEN [raised |-> "ZeroDivisionError",
               self |-> [self EXCEPT !.corpus = documents, !.chunk_ids = ids]]
         ELSE [raised |-> "none",
               self |-> [corpus |-> documents, chunk_ids |-> ids, bm25 |-> documents,
                         is_initialized |-> TRUE]]

\* one call of BM25Retriever.build_index / HybridRetriever.initialize_bm25
BuildIndexWith(documents, ids) ==
    LET r == build_index(Retriever, documents, ids)
    IN /\ called' = "build_index"
       /\ outcome' = IF r.raised = "none" THEN "returned" ELSE "raised"
       /\ error' = r.raised
       /\ corpus' = r.self.corpus
       /\ chunk_ids' = r.self.chunk_ids
       /\ bm25' = r.self.bm25
       /\ is_initialized' = r.self.is_initialized
       /\ UNCHANGED <<rrfVars, nerVars, docVars, env, vecVars, ragVars, threadVars>>

BuildIndex == \E a \in BuildArguments : BuildIndexWith(a[1], a[2])

\* BM25Retriever.retrieve(query, top_k)
BM25Retrieve ==
    \E k \in 1..MaxTopK :
        /\ called' = "bm25.retrieve"
        /\ top_k' = k
        /\ IF ~is_initialized
           THEN /\ outcome' = "raised"
                /\ error' = "ValueError"
                /\ bm25_results' = <<>>
           ELSE LET r == BM25Candidates(bm25, chunk_ids, k)
                IN /\ outcome' = IF r.raised = "none" THEN "returned" ELSE "raised"
                   /\ error' = r.raised
                   /\ bm25_results' = r.results
        /\ vector_results' = <<>>
        /\ combined_results' = <<>>
        /\ UNCHANGED <<nerVars, docVars, bm25Vars, env, vecVars, ragVars, threadVars>>

\* the lexical half of HybridRetriever.retrieve:
\* "if self.bm25_retriever._is_initialized: bm25_results = ...retrieve(query, top_k * 5)"
LexicalHalfNarrow(k) ==
    IF is_initialized
    THEN BM25Candidates(bm25, chunk_ids, k)
    ELSE [raised |-> "none", results |-> <<>>]

LexicalHalf(k) ==
    IF is_initialized
    THEN BM25Candidates(bm25, chunk_ids, k * CandidateFactor)
    ELSE [raised |-> "none", results |-> <<>>]

\* HybridRetriever.retrieve(query, top_k): rows is the content of the vector
\* store, faults how the embedder and the store behave during the call
HybridRetrieveWith(k, rows, faults) ==
    LET lexical == LexicalHalf(k)
        vector == IF lexical.raised = "none"
                  THEN VectorRetrieve(rows, k * CandidateFactor, faults)
                  ELSE [raised |-> "none", results |-> <<>>]
    IN /\ called' = "hybrid.retrieve"
       /\ top_k' = k
       /\ env' = faults
       /\ bm25_results' = lexical.results
       /\ vector_results' = vector.results
       /\ IF lexical.raised # "none"
          THEN /\ outcome' = "raised"
               /\ error' = lexical.raised
               /\ combined_results' = <<>>
          ELSE IF vector.raised # "none"
               THEN /\ outcome' = "raised"
                    /\ error' = vector.raised
                    /\ combined_results' = <<>>
               ELSE /\ outcome' = "returned"
                    /\ error' = "none"
                    /\ \E order \in Perms(AllChunkIds(lexical.results, vector.results)) :
                          combined_results' =
                              ReciprocalRankFusion(lexical.results, vector.results, k, order)
       /\ UNCHANGED <<nerVars, docVars, bm25Vars, threadVars, vecVars, ragVars>>

HybridRetrieve ==
    \E k \in 1..MaxTopK, rows \in RowLists, faults \in Faults : HybridRetrieveWith(k, rows, faults)

NextHybrid == BuildIndex \/ BM25Retrieve \/ HybridRetrieve

SpecHybrid == InitHybrid /\ [][NextHybrid]_vars

\* the BM25Retriever alone: rebuilds and lexical retrievals in any order
NextIndex == BuildIndex \/ BM25Retrieve

SpecIndex == InitHybrid /\ [][NextIndex]_vars

----------------------------------------------------------------------------
(* Specification of the candidate lists: HybridRetriever.retrieve over an   *)
(* index and a store that hold one entry more than top_k * 5 for top_k = 1. *)

WideSize == CandidateFactor + 1

\* the indexes built before the call: documents 1..n, all holding a query
\* term, the last one possibly none
WideIndexes ==
    {[i \in 1..n |-> [chunk |-> i, hits |-> IF i = n THEN h ELSE 1]] :
        n \in 0..WideSize, h \in 0..1}

\* the stores: rows WideSize, WideSize - 1, ..., all above the similarity
\* floor, the last one possibly below
WideStores ==
    {[i \in 1..m |-> [id |-> WideSize + 1 - i,
                      similarity |-> IF i = m THEN sim ELSE SetMax(Similarities)]] :
        m \in 0..WideSize, sim \in Similarities}

InitWide ==
    /\ bm25_results = <<>>
    /\ vector_results = <<>>
    /\ top_k = 1
    /\ combined_results = <<>>
    /\ called = "none"
    /\ outcome = "none"
    /\ error = "none"
    /\ NerIdle
    /\ DocIdle
    /\ \E documents \in WideIndexes :
          IF documents = <<>>
          THEN BM25Constructed
          ELSE /\ corpus = documents
               /\ chunk_ids = IdsOf(documents)
               /\ bm25 = documents
               /\ is_initialized = TRUE
    /\ env = NoFaults
    /\ writer = IdleWriter
    /\ reader = IdleReader
    /\ store \in WideStores
    /\ native = NotSearched
    /\ fallback = NotSearched
    /\ RagIdle

\* HybridRetriever.retrieve(query, top_k) on the store, all collaborators working
WideRetrieve ==
    /\ called = "none"
    /\ \E k \in 1..MaxTopK : HybridRetrieveWith(k, store, NoFaults)

NextWide == WideRetrieve

SpecWide == InitWide /\ [][NextWide]_vars

----------------------------------------------------------------------------
(* Claim about the candidate lists (checked under SpecWide) *)

HybridReturned == called = "hybrid.retrieve" /\ outcome = "returned"

\* the chunk ids of the fused results
FusedIds == {combined_results[i][1] : i \in DOMAIN combined_results}

\* the RRF score of a candidate of the last call
CandidateScore(chunk_id) == RRFScore(chunk_id, RankMap(bm25_results), RankMap(vector_results))

\* C23: retrieve(query, top_n) asks each retriever it consults for exactly
\* top_n * 5 candidates and returns at most top_n results, the top_n
\* highest-ranked entries of the fused ordering of all those candidates.
C23_FiveTimesCandidatesTopNReturned ==
    HybridReturned =>
        LET positive == Cardinality({i \in DOMAIN bm25 : bm25[i].hits > 0})
            passing == Cardinality({i \in DOMAIN store :
                                       store[i].similarity >= SimilarityThreshold})
            ids == AllChunkIds(bm25_results, vector_results)
        IN /\ is_initialized => Len(bm25_results) = Min(top_k * 5, positive)
           /\ ~is_initialized => bm25_results = <<>>
           /\ Len(vector_results) = Min(top_k * 5, passing)
           /\ Len(combined_results) = Min(top_k, Cardinality(ids))
           /\ Cardinality(FusedIds) = Len(combined_results)
           /\ FusedIds \subseteq ids
           /\ \A i \in DOMAIN combined_results :
                 /\ FracEq(combined_results[i][2], CandidateScore(combined_results[i][1]))
                 /\ \A j \in DOMAIN combined_results :
                       i < j => ~FracLess(combined_results[i][2], combined_results[j][2])
                 /\ \A c \in ids \ FusedIds :
                       ~FracLess(combined_results[i][2], CandidateScore(c))

\* both retrievers held more than top_k * 5 matching entries and were cut to
\* top_k * 5; the fusion was cut to top_k
C23_Witness ==
    /\ HybridReturned
    /\ top_k = 1
    /\ is_initialized
    /\ Cardinality({i \in DOMAIN bm25 : bm25[i].hits > 0}) > 5
    /\ Cardinality({i \in DOMAIN store : store[i].similarity >= SimilarityThreshold}) > 5
    /\ Len(bm25_results) = 5
    /\ Len(vector_results) = 5
    /\ Cardinality(AllChunkIds(bm25_results, vector_results)) > 1
    /\ Len(combined_results) = 1

----------------------------------------------------------------------------
(* Specification of the two vector searches of VectorRetriever on one store *)
(* and one query: the pgvector query of retrieve and _retrieve_fallback.    *)

\* what the embedding column of a row holds: a vector (with a cosine
\* similarity to the query), NULL, the empty string, text that is no vector
\* literal, or a vector of norm zero
EmbeddingKinds == {"vector", "null", "blank", "malformed", "zero"}

StoredRows ==
    {r \in [id : StoreChunkIds, embedding : EmbeddingKinds, similarity : Similarities \cup {0}] :
        r.embedding = "vector" <=> r.similarity # 0}

Stores ==
    {rows \in UNION {[1..m -> StoredRows] : m \in 0..MaxRows} :
        \A i, j \in DOMAIN rows : i # j => rows[i].id # rows[j].id}

IdsOfRows(rows) == [i \in DOMAIN rows |-> rows[i].id]

\* the orders "ORDER BY embedding::vector <=> query" may return the rows in:
\* by similarity descending, rows of equal similarity in any order
DistanceOrders(rows) ==
    {[i \in DOMAIN rows |-> rows[p[i]]] : p \in
        {q \in Perms(DOMAIN rows) :
            \A i, j \in DOMAIN rows : i < j => rows[q[i]].similarity >= rows[q[j]].similarity}}

\* the pgvector query of VectorRetriever.retrieve: the cast embedding::vector
\* fails the whole query on text that is no vector literal; a NULL embedding
\* gives a NULL similarity, which fails the WHERE clause; the distance to a
\* zero vector is NaN, and nan_passes says whether the store lets NaN pass
\* ">= similarity_threshold" (such a row sorts last)
NativeSearch(rows, k, nan_passes) ==
    IF \E i \in DOMAIN rows : rows[i].embedding \in {"blank", "malformed"}
    THEN {[outcome |-> "raised", results |-> <<>>]}
    ELSE LET passing == SelectSeq(rows, LAMBDA r :
                           r.embedding = "vector" /\ r.similarity >= SimilarityThreshold)
             nans == IF nan_passes THEN SelectSeq(rows, LAMBDA r : r.embedding = "zero")
                     ELSE <<>>
         IN {[outcome |-> "returned", results |-> IdsOfRows(Take(best \o last, k))] :
                best \in DistanceOrders(passing), last \in DistanceOrders(nans)}

\* VectorRetriever._retrieve_fallback: rows without embedding, with an empty,
\* unparsable or zero-norm embedding are skipped, the others filtered by the
\* floor, sorted by similarity (stable) and cut to top_k
_retrieve_fallback(rows, k) ==
    LET similarities == SelectSeq(rows, LAMBDA r :
                           r.embedding = "vector" /\ r.similarity >= SimilarityThreshold)
    IN [outcome |-> "returned",
        results |-> IdsOfRows(Take(SortedBySimilarityDesc(similarities), k))]

InitVector ==
    /\ store \in Stores
    /\ top_k \in 1..MaxTopK
    /\ native = NotSearched
    /\ fallback = NotSearched
    /\ bm25_results = <<>>
    /\ vector_results = <<>>
    /\ combined_results = <<>>
    /\ called = "none"
    /\ outcome = "none"
    /\ error = "none"
    /\ NerIdle
    /\ DocIdle
    /\ BM25Constructed
    /\ ThreadsIdle
    /\ RagIdle

\* the store answers the pgvector query
SearchNative ==
    /\ native.outcome = "none"
    /\ \E nan_passes \in BOOLEAN : native' \in NativeSearch(store, top_k, nan_passes)
    /\ UNCHANGED <<store, fallback>>
    /\ UNCHANGED <<rrfVars, callVars, nerVars, docVars, bm25Vars, env, threadVars, ragVars>>

\* the same search by _retrieve_fallback
SearchFallback ==
    /\ fallback.outcome = "none"
    /\ fallback' = _retrieve_fallback(store, top_k)
    /\ UNCHANGED <<store, native>>
    /\ UNCHANGED <<rrfVars, callVars, nerVars, docVars, bm25Vars, env, threadVars, ragVars>>

NextVector == SearchNative \/ SearchFallback

SpecVector == InitVector /\ [][NextVector]_vars

----------------------------------------------------------------------------
(* Claim about the vector searches (checked under SpecVector) *)

\* C26: for the same query, store, top_n and similarity floor the fallback
\* search returns the same chunk ids in the same order as the native search,
\* also for rows of equal similarity and rows whose embedding is empty,
\* malformed or of norm zero.
C26_FallbackEqualsNativeSearch ==
    (native.outcome = "returned" /\ fallback.outcome = "returned")
        => fallback.results = native.results

----------------------------------------------------------------------------
(* Claims about error handling of the retrievers (checked under SpecHybrid; *)
(* C27 and C28 under SpecIndex)                                             *)

\* the embedder or the vector store failed during the last hybrid retrieve
VectorSideFailed == ~env.encode_ok \/ (~env.native_ok /\ ~env.fallback_ok)

\* C5: a lexical retrieval attempted before the index is built is surfaced to
\* the caller as an error, by BM25Retriever.retrieve and by
\* HybridRetriever.retrieve alike; it is never answered with a silently
\* empty lexical contribution.
C5_IndexNotReadyIsSurfaced ==
    (called \in {"bm25.retrieve", "hybrid.retrieve"} /\ ~is_initialized)
        => outcome = "raised"

\* C6: when the embedder or the vector store fails during
\* HybridRetriever.retrieve while the lexical index is built, the call returns
\* the fusion of the lexical candidates alone.
C6_VectorFailureDegradesToLexical ==
    (called = "hybrid.retrieve" /\ is_initialized /\ chunk_ids = IdsOf(bm25) /\ VectorSideFailed)
        => /\ outcome = "returned"
           /\ [i \in DOMAIN combined_results |-> combined_results[i][1]]
                 = Take(bm25_results, top_k)

\* C7: when both the lexical and the vector retriever fail within one
\* retrieval, the caller receives the RetrievalUnavailable error.
C7_BothFailRaisesRetrievalUnavailable ==
    (called = "hybrid.retrieve" /\ ~is_initialized /\ VectorSideFailed)
        => (outcome = "raised" /\ error = "RetrievalUnavailable")

\* C27: whenever the retriever is Indexed, chunk_ids holds exactly one id per
\* document of the index used for scoring, the id of that document, whatever
\* build_index calls came before, failing ones included.
C27_ChunkIdsMatchTheIndexUsed ==
    is_initialized => (Len(chunk_ids) = Len(bm25) /\ chunk_ids = IdsOf(bm25))

\* C28: a build_index call with documents and chunk_ids of different lengths
\* raises and leaves corpus, chunk_ids, the scorer and the
\* Uninitialized/Indexed state as they were.
C28_MismatchedBuildLeavesRetrieverUnchanged ==
    [][\A a \in BuildArguments :
          (Len(a[1]) # Len(a[2]) /\ BuildIndexWith(a[1], a[2]))
              => (outcome' = "raised" /\ UNCHANGED bm25Vars)]_vars

\* an Indexed retriever after a build_index call that was refused for its
\* lengths: it still holds its previous index
C28_Witness ==
    /\ called = "build_index"
    /\ outcome = "raised"
    /\ error = "ValueError"
    /\ is_initialized
    /\ bm25 # <<>>
    /\ chunk_ids = IdsOf(bm25)

----------------------------------------------------------------------------
(* Specification of one BM25Retriever shared by two threads: one calls     *)
(* build_index, the other retrieve.  The code takes no lock, so the        *)
(* threads interleave between the statements that read or write the        *)
(* object.  The rebuilds of this specification all succeed (a non-empty    *)
(* document list with its own ids).                                        *)

InitConc == InitHybrid

\* build_index, line 47: the length check passes
BuildIndexBegin ==
    /\ writer.pc = "idle"
    /\ \E documents \in DocumentLists \ {<<>>} :
          writer' = [pc |-> "L50", documents |-> documents, chunk_ids |-> IdsOf(documents)]
    /\ UNCHANGED <<rrfVars, callVars, nerVars, docVars, bm25Vars, env, vecVars, ragVars, reader>>

\* line 50: self.corpus = documents
BuildIndexSetCorpus ==
    /\ writer.pc = "L50"
    /\ corpus' = writer.documents
    /\ writer' = [writer EXCEPT !.pc = "L51"]
    /\ UNCHANGED <<rrfVars, callVars, nerVars, docVars, chunk_ids, bm25, is_initialized, env, vecVars, ragVars, reader>>

\* line 51: self.chunk_ids = chunk_ids
BuildIndexSetChunkIds ==
    /\ writer.pc = "L51"
    /\ chunk_ids' = writer.chunk_ids
    /\ writer' = [writer EXCEPT !.pc = "L53"]
    /\ UNCHANGED <<rrfVars, callVars, nerVars, docVars, corpus, bm25, is_initialized, env, vecVars, ragVars, reader>>

\* lines 52-53: self.bm25 = BM25Okapi(tokenized_corpus, ...)
BuildIndexSetBM25 ==
    /\ writer.pc = "L53"
    /\ bm25' = writer.documents
    /\ writer' = [writer EXCEPT !.pc = "L54"]
    /\ UNCHANGED <<rrfVars, callVars, nerVars, docVars, corpus, chunk_ids, is_initialized, env, vecVars, ragVars, reader>>

\* line 54: self._is_initialized = True, and the call returns
BuildIndexSetInitialized ==
    /\ writer.pc = "L54"
    /\ is_initialized' = TRUE
    /\ writer' = IdleWriter
    /\ called' = "build_index"
    /\ outcome' = "returned"
    /\ error' = "none"
    /\ UNCHANGED <<rrfVars, nerVars, docVars, corpus, chunk_ids, bm25, env, vecVars, ragVars, reader>>

\* retrieve, line 68: the initialisation check
RetrieveBegin ==
    /\ reader.pc = "idle"
    /\ \E k \in 1..MaxTopK :
          /\ top_k' = k
          /\ IF ~is_initialized
             THEN /\ reader' = IdleReader
                  /\ called' = "bm25.retrieve"
                  /\ outcome' = "raised"
                  /\ error' = "ValueError"
             ELSE /\ reader' = [IdleReader EXCEPT !.pc = "L72"]
                  /\ UNCHANGED callVars
    /\ UNCHANGED <<bm25_results, vector_results, combined_results, nerVars, docVars, bm25Vars, env, vecVars, ragVars, writer>>

\* lines 72-75: scores = self.bm25.get_scores(...); top_indices = ...
RetrieveScore ==
    /\ reader.pc = "L72"
    /\ reader' = [reader EXCEPT !.pc = "L78",
                                !.scored = bm25,
                                !.top_indices = PositiveOnly(Scores(bm25), TopIndices(Scores(bm25), top_k))]
    /\ UNCHANGED <<rrfVars, callVars, nerVars, docVars, bm25Vars, env, vecVars, ragVars, writer>>

\* lines 78-80, one iteration: results.append((self.chunk_ids[idx], ...))
RetrieveAppend ==
    /\ reader.pc = "L78"
    /\ reader.top_indices # <<>>
    /\ LET idx == Head(reader.top_indices)
       IN IF idx > Len(chunk_ids)
          THEN /\ reader' = [reader EXCEPT !.pc = "idle"]
               /\ called' = "bm25.retrieve"
               /\ outcome' = "raised"
               /\ error' = "IndexError"
          ELSE /\ reader' = [reader EXCEPT !.top_indices = Tail(reader.top_indices),
                                           !.results = Append(reader.results, <<idx, chunk_ids[idx]>>)]
               /\ UNCHANGED callVars
    /\ UNCHANGED <<rrfVars, nerVars, docVars, bm25Vars, env, vecVars, ragVars, writer>>

\* line 82: return results
RetrieveReturn ==
    /\ reader.pc = "L78"
    /\ reader.top_indices = <<>>
    /\ reader' = [reader EXCEPT !.pc = "idle"]
    /\ bm25_results' = [n \in DOMAIN reader.results |-> reader.results[n][2]]
    /\ called' = "bm25.retrieve"
    /\ outcome' = "returned"
    /\ error' = "none"
    /\ UNCHANGED <<vector_results, top_k, combined_results, nerVars, docVars, bm25Vars, env, vecVars, ragVars, writer>>

NextConc ==
    \/ BuildIndexBegin
    \/ BuildIndexSetCorpus
    \/ BuildIndexSetChunkIds
    \/ BuildIndexSetBM25
    \/ BuildIndexSetInitialized
    \/ RetrieveBegin
    \/ RetrieveScore
    \/ RetrieveAppend
    \/ RetrieveReturn

SpecConc == InitConc /\ [][NextConc]_vars

----------------------------------------------------------------------------
(* Claim about concurrent rebuilds (checked under SpecConc) *)

\* C8: no BM25Retriever.retrieve interleaved with a build_index observes a
\* partly rebuilt index: every chunk id it puts in its result is the id of the
\* document whose score it carries, and it does not fail on a chunk-id list
\* that is shorter than the scored corpus.
C8_RetrieveNeverSeesPartlyRebuiltIndex ==
    /\ \A n \in DOMAIN reader.results :
          reader.results[n][2] = reader.scored[reader.results[n][1]].chunk
    /\ ~(called = "bm25.retrieve" /\ outcome = "raised" /\ error = "IndexError")

----------------------------------------------------------------------------
(* Specification of the annotators: a text is drawn in Init and handed to  *)
(* one of extract_entities, detect_dark_zones and enhance_query.           *)

InitAnnotate ==
    /\ text \in Texts
    /\ dark_zones = <<>>
    /\ enhanced_query = <<>>
    /\ document = <<>>
    /\ chunk_outcome = "none"
    /\ chunks = <<>>
    /\ NerIdle
    /\ called = "none"
    /\ outcome = "none"
    /\ error = "none"
    /\ bm25_results = <<>>
    /\ vector_results = <<>>
    /\ top_k = 1
    /\ combined_results = <<>>
    /\ BM25Constructed
    /\ ThreadsIdle
    /\ VectorIdle
    /\ RagIdle

\* LegalNER.extract_entities(text)
ExtractEntitiesOfText ==
    /\ called = "none"
    /\ candidates' = Scan(text)
    /\ entities' = extract_entities(text)
    /\ called' = "extract_entities"
    /\ outcome' = "returned"
    /\ UNCHANGED <<error, docVars>>
    /\ UNCHANGED <<rrfVars, bm25Vars, env, vecVars, ragVars, threadVars>>

\* DarkZoneDetector.detect_dark_zones(text)
DetectDarkZones ==
    /\ called = "none"
    /\ dark_zones' = detect_dark_zones(text)
    /\ called' = "detect_dark_zones"
    /\ outcome' = "returned"
    /\ UNCHANGED <<error, nerVars, text, enhanced_query, document, chunk_outcome, chunks>>
    /\ UNCHANGED <<rrfVars, bm25Vars, env, vecVars, ragVars, threadVars>>

\* QueryEnhancer.enhance_query(text) with its default flags; max_terms is 10
EnhanceQuery ==
    /\ called = "none"
    /\ \E legal_terms \in Perms(LegalTermSet(text)) :
          enhanced_query' = enhance_query(text, Take(legal_terms, 10))
    /\ entities' = extract_entities(text)
    /\ dark_zones' = detect_dark_zones(text)
    /\ called' = "enhance_query"
    /\ outcome' = "returned"
    /\ UNCHANGED <<error, candidates, text, document, chunk_outcome, chunks>>
    /\ UNCHANGED <<rrfVars, bm25Vars, env, vecVars, ragVars, threadVars>>

NextAnnotate == ExtractEntitiesOfText \/ DetectDarkZones \/ EnhanceQuery

SpecAnnotate == InitAnnotate /\ [][NextAnnotate]_vars

----------------------------------------------------------------------------
(* Claims about the dark-zone detector (checked under SpecAnnotate) *)

Detected == called = "detect_dark_zones" /\ outcome = "returned"

\* the given words stand in the text from the i-th word on
PhraseAt(words, i, phrase) ==
    /\ i + Len(phrase) - 1 <= Len(words)
    /\ \A j \in 1..Len(phrase) : words[i + j - 1] = phrase[j]

\* the mention is followed, after one blank, by "which states that"
FollowedByWhichStates(words, entity) ==
    \E i \in DOMAIN words :
        /\ Offset(words, i) = entity.end + 1
        /\ PhraseAt(words, i, <<"which", "states", "that">>)

\* C11: a LegalSection mention immediately followed by "which states that"
\* is never returned as a dark zone, wherever the mention stands in the text
\* and however it is written.
C11_ExplainedSectionIsNeverDarkZone ==
    Detected =>
        \A n \in DOMAIN dark_zones : ~FollowedByWhichStates(text, dark_zones[n].section_entity)

\* C12: every dark zone's section_entity is a LEGAL_SECTION entity that
\* extract_entities returns for the same text, and no entity gets two dark
\* zones.
C12_DarkZonesAreExtractedSections ==
    Detected =>
        /\ \A n \in DOMAIN dark_zones :
              /\ dark_zones[n].section_entity \in Range(extract_entities(text))
              /\ dark_zones[n].section_entity.entity_type = "LEGAL_SECTION"
        /\ \A n, m \in DOMAIN dark_zones :
              n # m => dark_zones[n].section_entity # dark_zones[m].section_entity

\* two dark zones of a text in which the scanners also matched a section
\* mention that overlap resolution dropped
C12_Witness ==
    /\ Detected
    /\ Len(dark_zones) = 2
    /\ \E e \in Range(Scan(text)) :
          e.entity_type = "LEGAL_SECTION" /\ e \notin Range(extract_entities(text))

ConvictedPhrase ==
    <<"convicted", "under", "Section", "302", "of", "the", "Indian", "Penal", "Code">>

\* the text contains "convicted under Section 302 of the Indian Penal Code"
\* from the i-th word on, no other section mention and no explanation
\* indicator
ConvictedTextAt(words, i) ==
    /\ PhraseAt(words, i, ConvictedPhrase)
    /\ Cardinality({j \in DOMAIN words : words[j] = "Section"}) = 1
    /\ \A j \in DOMAIN words : words[j] \notin {"IPC", "states"}

\* the entity of the mention whose first word is the i-th word of the text
Section302(words, i) ==
    [text |-> <<"IPC", "Section", "302">>, entity_type |-> "LEGAL_SECTION",
     start |-> Offset(words, i), end |-> Offset(words, i) + 36, confidence |-> 90,
     metadata |-> {<<"act", "IPC">>, <<"section_number", "302">>}]

\* C13: for a text containing "convicted under Section 302 of the Indian
\* Penal Code" and no explanation indicator, extract_entities returns exactly
\* one LEGAL_SECTION entity, with act "IPC" and section_number "302", and not
\* the Statute match "Indian Penal Code"; detect_dark_zones returns exactly
\* one DarkZone, for that entity.
C13_ConvictedUnderSection302 ==
    \A i \in DOMAIN text :
        ConvictedTextAt(text, i) =>
            /\ (called = "extract_entities" /\ outcome = "returned") =>
                  /\ SelectSeq(entities, LAMBDA e : e.entity_type = "LEGAL_SECTION")
                        = <<Section302(text, i + 2)>>
                  /\ \A e \in Range(entities) :
                        e.entity_type = "STATUTE" => ~Overlaps(e, Section302(text, i + 2))
            /\ Detected =>
                  /\ Len(dark_zones) = 1
                  /\ dark_zones[1].section_entity = Section302(text, i + 2)

\* the phrase after more than 500 characters of other text, handed to
\* detect_dark_zones
C13_Witness ==
    /\ Detected
    /\ \E i \in DOMAIN text : ConvictedTextAt(text, i) /\ Offset(text, i) > 500
    /\ Len(dark_zones) = 1

\* C24: every dark zone carries three resolution hints, in this order:
\* retrieve the full text of the cited section, retrieve the sibling
\* LEGAL_SECTION entities of the window, search for judgments citing the
\* section; also when the window holds no other LEGAL_SECTION entity.
C24_ThreeResolutionHints ==
    Detected =>
        \A n \in DOMAIN dark_zones :
            LET hints == dark_zones[n].resolution_suggestions
            IN /\ Len(hints) = 3
               /\ hints[1][1] = "Retrieve full text of"
               /\ hints[2][1] = "Retrieve related sections:"
               /\ hints[3][1] = "Search for judgments citing"

\* C25: the related_entities of a dark zone are exactly the other extracted
\* entities whose whole span lies inside the context window
\* [max(0, s - radius), min(len(text), e + radius)) of the section entity
\* (s, e); the section entity itself is never among them.
C25_RelatedEntitiesLieInsideWindow ==
    Detected =>
        \A n \in DOMAIN dark_zones :
            LET section == dark_zones[n].section_entity
                lo == IF section.start - context_window_size > 0
                      THEN section.start - context_window_size ELSE 0
                hi == Min(TextLength(text), section.end + context_window_size)
            IN Range(dark_zones[n].related_entities)
                  = {e \in Range(extract_entities(text)) :
                        e # section /\ lo <= e.start /\ e.end <= hi}

----------------------------------------------------------------------------
(* Claims about the query enhancer (checked under SpecAnnotate) *)

Enhanced == called = "enhance_query" /\ outcome = "returned"

\* the entities whose text enhance_query must carry into the query
HighConfidence(e) ==
    e.confidence >= 80 /\ e.entity_type \in {"LEGAL_SECTION", "CASE_NUMBER", "STATUTE"}

\* the token occurs in the enhanced query, compared case-insensitively
InQuery(token) ==
    \E n \in DOMAIN enhanced_query : LowerToken(enhanced_query[n]) = LowerToken(token)

\* C14: every whitespace token of the text of every entity with confidence
\* >= 0.8 and type LegalSection, CaseNumber or Statute is, compared
\* case-insensitively, a token of the enhanced query, for short texts and for
\* texts longer than 500 characters; deduplication keeps one occurrence.
C14_HighConfidenceEntityTokensKept ==
    Enhanced =>
        \A e \in Range(entities) :
            HighConfidence(e) => \A i \in DOMAIN e.text : InQuery(Spelling(e.text[i]))

\* a text longer than 500 characters with high-confidence entities of two
\* types, from whose query deduplication removed tokens
C14_Witness ==
    /\ Enhanced
    /\ TextLength(text) > 500
    /\ \E e1, e2 \in Range(entities) :
          HighConfidence(e1) /\ HighConfidence(e2) /\ e1.entity_type # e2.entity_type
    /\ \E legal_terms \in Perms(LegalTermSet(text)) :
          Len(enhanced_query) < Len(QueryParts(text, entities, dark_zones, legal_terms))

\* the first letters of the token are the given ones
StartsWith(token, letters) ==
    Len(token) >= Len(letters) /\ SubSeq(token, 1, Len(letters)) = letters

\* the last letters of the token are the given ones
EndsWith(token, letters) ==
    /\ Len(token) >= Len(letters)
    /\ SubSeq(token, Len(token) - Len(letters) + 1, Len(token)) = letters

\* the enhanced query, its tokens joined by single blanks, includes the
\* string "IPC Section 302"
QueryIncludesIPCSection302 ==
    \E n \in 1..(Len(enhanced_query) - 2) :
        /\ EndsWith(enhanced_query[n], Spelling("IPC"))
        /\ enhanced_query[n + 1] = Spelling("Section")
        /\ StartsWith(enhanced_query[n + 2], Spelling("302"))

\* C15: for a text containing "convicted under Section 302 of the Indian
\* Penal Code" the enhanced query includes the string "IPC Section 302".
C15_QueryIncludesNormalizedSection ==
    (Enhanced /\ \E i \in DOMAIN text : PhraseAt(text, i, ConvictedPhrase))
        => QueryIncludesIPCSection302

----------------------------------------------------------------------------
(* Specification of the chunker: a document is drawn in Init and handed to *)
(* chunk; extract_entities is called on the empty text.                    *)

InitChunker ==
    /\ document \in JudgmentTexts
    /\ chunk_outcome = "none"
    /\ chunks = <<>>
    /\ text = <<>>
    /\ dark_zones = <<>>
    /\ enhanced_query = <<>>
    /\ NerIdle
    /\ called = "none"
    /\ outcome = "none"
    /\ error = "none"
    /\ bm25_results = <<>>
    /\ vector_results = <<>>
    /\ top_k = 1
    /\ combined_results = <<>>
    /\ BM25Constructed
    /\ ThreadsIdle
    /\ VectorIdle
    /\ RagIdle

\* LegalChunker.chunk(text)
ChunkDocument ==
    /\ chunk_outcome = "none"
    /\ chunks' = chunk(document)
    /\ chunk_outcome' = "returned"
    /\ UNCHANGED <<text, dark_zones, enhanced_query, document>>
    /\ UNCHANGED <<rrfVars, callVars, nerVars, bm25Vars, env, vecVars, ragVars, threadVars>>

NextChunker == ChunkDocument \/ ExtractEntitiesOfText

SpecChunker == InitChunker /\ [][NextChunker]_vars

----------------------------------------------------------------------------
(* Claims about the chunker (checked under SpecChunker) *)

Chunked == chunk_outcome = "returned"

\* what is left of the sentences after the first n characters of their text
RECURSIVE DropChars(_, _)
DropChars(sentences, n) ==
    IF n <= 0 \/ sentences = <<>> THEN sentences
    ELSE IF SentenceLength(Head(sentences)) <= n
         THEN DropChars(Tail(sentences), n - SentenceLength(Head(sentences)) - 1)
         ELSE sentences

\* the regions of the first n chunks that do not overlap the chunk before,
\* one after the other
RECURSIVE Reassembled(_, _)
Reassembled(list, n) ==
    IF n = 0 THEN <<>>
    ELSE IF n = 1 THEN list[1].text
    ELSE Reassembled(list, n - 1) \o DropChars(list[n].text, list[n - 1].end - list[n].start)

\* C16: re-concatenating the non-overlap regions of consecutive chunks gives
\* the original document back, with or without section markers.
C16_ChunksReassembleToDocument ==
    Chunked => Reassembled(chunks, Len(chunks)) = document

\* C17: a non-empty document whose whole text has fewer than min_chunk_size
\* tokens yields exactly one chunk: the trailing chunk is not dropped when it
\* is the only one.
C17_ShortDocumentYieldsOneChunk ==
    (/\ Chunked
     /\ document # <<>>
     /\ \A i \in DOMAIN document : document[i].marker = "none"
     /\ _count_tokens(document) < min_chunk_size)
        => Len(chunks) = 1

\* C18: every chunk but the last has between min_chunk_size and chunk_size
\* tokens.
C18_ChunkTokensWithinBounds ==
    Chunked =>
        \A n \in 1..(Len(chunks) - 1) :
            /\ min_chunk_size <= _count_tokens(chunks[n].text)
            /\ _count_tokens(chunks[n].text) <= chunk_size

\* C19: within one section each chunk starts no earlier than the chunk
\* before and ends after it, and a chunk seeded with overlap starts strictly
\* before the end of the chunk before.
C19_SpansIncreaseWithinSection ==
    Chunked =>
        \A n \in 1..(Len(chunks) - 1) :
            chunks[n + 1].section = chunks[n].section =>
                /\ chunks[n + 1].start >= chunks[n].start
                /\ chunks[n + 1].end > chunks[n].end
                /\ chunks[n + 1].seeded => chunks[n + 1].start < chunks[n].end

\* a chunk whose overlap is the whole chunk before (equal starts), and a
\* chunk of a section that follows without overlap
C19_Witness ==
    /\ Chunked
    /\ \E n \in 1..(Len(chunks) - 1) :
          /\ chunks[n + 1].section = chunks[n].section
          /\ chunks[n + 1].seeded
          /\ chunks[n + 1].start = chunks[n].start
    /\ \E n \in 1..(Len(chunks) - 1) :
          /\ chunks[n + 1].section = chunks[n].section
          /\ chunks[n].section > 0
          /\ ~chunks[n + 1].seeded

\* C20: empty input gives zero results and no error: chunk("") returns the
\* empty list and extract_entities("") returns the empty list.
C20_EmptyInputGivesNoResults ==
    /\ (chunk_outcome # "none" /\ document = <<>>) => (chunk_outcome = "returned" /\ chunks = <<>>)
    /\ (called = "extract_entities" /\ text = <<>>) => (outcome = "returned" /\ entities = <<>>)

\* both calls were made with the empty text
C20_Witness ==
    /\ chunk_outcome = "returned"
    /\ document = <<>>
    /\ chunks = <<>>
    /\ called = "extract_entities"
    /\ outcome = "returned"
    /\ text = <<>>
    /\ entities = <<>>

----------------------------------------------------------------------------
(* DynamicLegalRAG (src/rag/dynamic_legal_rag.py).  A statute lookup is    *)
(* one execute_one on legal_sections; the lookups of one process call are  *)
(* numbered in call order, failing is the set of those that raise.         *)

\* "top_k: int = 3" of DynamicLegalRAG.__init__
DefaultTopK == 3

\* "for sec in sections[:5]"
MaxSections == 5

\* "for dz in dark_zones[:3]"
MaxResolved == 3

\* "original_query[:1000]"
QueryChars == 1000

\* sorted ascending: "ORDER BY jc.id"
RECURSIVE OrderById(_)
OrderById(ids) ==
    IF ids = <<>> THEN <<>>
    ELSE LET rest == OrderById(SubSeq(ids, 1, Len(ids) - 1))
             x == ids[Len(ids)]
             p == Cardinality({i \in DOMAIN rest : rest[i] <= x})
         IN SubSeq(rest, 1, p) \o <<x>> \o SubSeq(rest, p + 1, Len(rest))

\* _get_chunk_contents: the rows of the chunks, [] for no ids and when the
\* query raises (db_ok is FALSE)
_get_chunk_contents(ids, db_ok) ==
    IF ids = <<>> THEN <<>>
    ELSE IF db_ok THEN OrderById(ids) ELSE <<>>

\* "if not entity.metadata: continue" and "if act and section_num" of the loop
\* of _retrieve_legal_sections: the entities a lookup is made for
LookedUp(all_sections) ==
    SelectSeq(all_sections,
              LAMBDA entity :
                 /\ entity.metadata # {}
                 /\ MetadataGet(entity.metadata, "act", "None") # "None"
                 /\ MetadataGet(entity.metadata, "section_number", "None") # "None")

\* the execute_one calls of the loop when every exception is caught: one per
\* entity that is looked up, numbered from first_call
CallsOf(all_sections, first_call, failing) ==
    LET looked_up == LookedUp(all_sections)
    IN [i \in DOMAIN looked_up |->
           [act |-> MetadataGet(looked_up[i].metadata, "act", "None"),
            section_number |-> MetadataGet(looked_up[i].metadata, "section_number", "None"),
            call |-> first_call + i - 1,
            raised |-> (first_call + i - 1) \in failing]]

\* "sections.append(...)" for the calls that returned a row with content
SectionsOf(calls, table) ==
    LET found == SelectSeq(calls, LAMBDA c : ~c.raised /\ <<c.act, c.section_number>> \in table)
    IN [i \in DOMAIN found |-> <<found[i].act, found[i].section_number>>]

\* the loop of _retrieve_legal_sections with the try around execute_one
\* left out: the first exception ends the loop
LookupSectionsUnguarded(all_sections, first_call, failing, table) ==
    LET calls == CallsOf(all_sections, first_call, failing)
        made == IF \E i \in DOMAIN calls : calls[i].raised
                THEN Take(calls, CHOOSE i \in DOMAIN calls :
                                    /\ calls[i].raised
                                    /\ \A j \in 1..(i - 1) : ~calls[j].raised)
                ELSE calls
    IN [sections |-> SectionsOf(made, table), calls |-> made]

\* "for entity in all_sections" of _retrieve_legal_sections: the sections
\* found and the execute_one calls made.  A call that raises is logged and
\* the loop goes on; a row is appended when the call returns one with content.
LookupSections(all_sections, first_call, failing, table) ==
    LET calls == CallsOf(all_sections, first_call, failing)
    IN [sections |-> SectionsOf(calls, table), calls |-> calls]

\* section_refs + dark_zone_sections of _retrieve_legal_sections
AllSections(ents, zones) ==
    SelectSeq(ents, LAMBDA e : e.entity_type = "LEGAL_SECTION" /\ e.metadata # {})
    \o [i \in DOMAIN zones |-> zones[i].section_entity]

\* _retrieve_legal_sections(entities, dark_zones): formatted is the list of
\* the entries of the block, <<>> for the empty string
_retrieve_legal_sections(ents, zones, first_call, failing, table) ==
    LET all_sections == AllSections(ents, zones)
        looked == LookupSections(all_sections, first_call, failing, table)
    IN [formatted |-> Take(looked.sections, MaxSections), calls |-> looked.calls]

\* one round of "for dz in dark_zones[:3]" of _resolve_dark_zones
ResolveZone(st, dz, first_call, failing, table) ==
    LET section_refs == _retrieve_legal_sections(<<dz.section_entity>>, <<>>,
                                                 first_call + Len(st.calls), failing, table)
    IN [resolutions |-> IF section_refs.formatted # <<>>
                        THEN Append(st.resolutions,
                                    [dark_zone |-> dz.section_entity.text,
                                     resolution |-> section_refs.formatted])
                        ELSE st.resolutions,
        calls |-> st.calls \o section_refs.calls]

\* the loop over the first n zones
RECURSIVE ResolveZones(_, _, _, _, _)
ResolveZones(zones, n, first_call, failing, table) ==
    IF n = 0 THEN [resolutions |-> <<>>, calls |-> <<>>]
    ELSE ResolveZone(ResolveZones(zones, n - 1, first_call, failing, table), zones[n],
                     first_call, failing, table)

\* _resolve_dark_zones(dark_zones): resolutions is <<>> for the empty string
_resolve_dark_zones(zones, first_call, failing, table) ==
    ResolveZones(zones, Min(MaxResolved, Len(zones)), first_call, failing, table)

\* _assemble_context with the original query put in front
AssembleOriginalFirst(rows, legal_sections, dark_zone_resolutions, original_query) ==
    <<[kind |-> "original", chars |-> Min(TextLength(original_query), QueryChars)]>>
    \o (IF rows # <<>>
        THEN <<[kind |-> "excerpts_header"]>>
             \o [i \in DOMAIN rows |-> [kind |-> "excerpt", number |-> i, chunk_id |-> rows[i]]]
        ELSE <<>>)
    \o (IF legal_sections # <<>>
        THEN <<[kind |-> "legal_sections", entries |-> legal_sections]>>
        ELSE <<>>)
    \o (IF dark_zone_resolutions # <<>>
        THEN <<[kind |-> "dark_zone_resolutions", resolutions |-> dark_zone_resolutions]>>
        ELSE <<>>)

\* _assemble_context: context_parts before the join.  The excerpts are a
\* header and one part per chunk; the original query is cut to its first
\* QueryChars characters.
_assemble_context(rows, legal_sections, dark_zone_resolutions, original_query) ==
    (IF rows # <<>>
     THEN <<[kind |-> "excerpts_header"]>>
          \o [i \in DOMAIN rows |-> [kind |-> "excerpt", number |-> i, chunk_id |-> rows[i]]]
     ELSE <<>>)
    \o (IF legal_sections # <<>>
        THEN <<[kind |-> "legal_sections", entries |-> legal_sections]>>
        ELSE <<>>)
    \o (IF dark_zone_resolutions # <<>>
        THEN <<[kind |-> "dark_zone_resolutions", resolutions |-> dark_zone_resolutions]>>
        ELSE <<>>)
    \o <<[kind |-> "original", chars |-> Min(TextLength(original_query), QueryChars)]>>

\* the phrases the texts handed to process are put together from
RagPhrases == {<<"IPC", "Section", "302">>, <<"which", "states", "that">>, <<"xxx">>}

RagTexts == {Flatten(ps) : ps \in UNION {[1..n -> RagPhrases] : n \in 0..MaxMentions}}

\* the contents of legal_sections
StatuteTables == {{}, {<<"IPC", "302">>}}

\* the contents of judgment_chunks as the vector search sees them
RagStores ==
    {<<>>,
     <<[id |-> 3, similarity |-> 80], [id |-> 2, similarity |-> 80]>>}

\* the BM25 index at the time of the call: none (initialize_bm25_index was
\* not called) or one document holding a query term
RagIndexes == {<<>>, <<[chunk |-> 1, hits |-> 1]>>}

\* the execute_one calls process makes when none of them raises
NumLookups(ents, zones) ==
    (IF ents # <<>> THEN Len(AllSections(ents, zones)) ELSE 0) + Min(MaxResolved, Len(zones))

InitRAG ==
    /\ text \in RagTexts
    /\ statutes \in StatuteTables
    /\ store \in RagStores
    /\ \E documents \in RagIndexes :
          IF documents = <<>>
          THEN BM25Constructed
          ELSE /\ corpus = documents
               /\ chunk_ids = IdsOf(documents)
               /\ bm25 = documents
               /\ is_initialized = TRUE
    /\ native = NotSearched
    /\ fallback = NotSearched
    /\ lookups = <<>>
    /\ chunk_contents = <<>>
    /\ legal_sections_context = <<>>
    /\ context_parts = <<>>
    /\ dark_zones = <<>>
    /\ enhanced_query = <<>>
    /\ document = <<>>
    /\ chunk_outcome = "none"
    /\ chunks = <<>>
    /\ NerIdle
    /\ called = "none"
    /\ outcome = "none"
    /\ error = "none"
    /\ bm25_results = <<>>
    /\ vector_results = <<>>
    /\ top_k = 1
    /\ combined_results = <<>>
    /\ env = NoFaults
    /\ writer = IdleWriter
    /\ reader = IdleReader

\* process past the retrieval, which returned retrieved_results: chunk
\* contents, statute lookups, dark-zone resolutions, context
Complete(ents, zones, query, retrieved_results, db_ok, failing) ==
    LET top_chunks == Take(retrieved_results, DefaultTopK)
        rows == _get_chunk_contents([i \in DOMAIN top_chunks |-> top_chunks[i][1]], db_ok)
    IN \E legal \in {IF ents # <<>>
                     THEN _retrieve_legal_sections(ents, zones, 1, failing, statutes)
                     ELSE [formatted |-> <<>>, calls |-> <<>>]} :
          LET resolved == _resolve_dark_zones(zones, Len(legal.calls) + 1, failing, statutes)
          IN /\ outcome' = "returned"
             /\ error' = "none"
             /\ combined_results' = retrieved_results
             /\ entities' = ents
             /\ dark_zones' = zones
             /\ enhanced_query' = query
             /\ chunk_contents' = rows
             /\ lookups' = legal.calls \o resolved.calls
             /\ legal_sections_context' = legal.formatted
             /\ context_parts' = _assemble_context(rows, legal.formatted,
                                                   resolved.resolutions, text)

\* DynamicLegalRAG.process(text) with its default flags.  The retrieval is
\* outside any try: its exception escapes process.  The similarities of the
\* stored rows lie on the same side of this retriever's floor (0.7) as of
\* SimilarityThreshold.  The annotations of the text are bound by \E, which
\* evaluates each of them once.
Process ==
    /\ called = "none"
    /\ \E ents \in {extract_entities(text)}, zones \in {detect_dark_zones(text)} :
       \E legal_terms \in Perms(LegalTermSet(text)) :
       \E query \in {enhance_query(text, Take(legal_terms, 10))}, faults \in Faults :
          LET lexical == LexicalHalf(DefaultTopK * 2)
              vector == IF lexical.raised = "none"
                        THEN VectorRetrieve(store, DefaultTopK * 2 * CandidateFactor, faults)
                        ELSE [raised |-> "none", results |-> <<>>]
              raised == IF lexical.raised # "none" THEN lexical.raised ELSE vector.raised
          IN /\ called' = "process"
             /\ env' = faults
             /\ top_k' = DefaultTopK * 2
             /\ bm25_results' = lexical.results
             /\ vector_results' = vector.results
             /\ IF raised # "none"
                THEN /\ outcome' = "raised"
                     /\ error' = raised
                     /\ UNCHANGED <<combined_results, entities, dark_zones, enhanced_query,
                                    lookups, chunk_contents, legal_sections_context,
                                    context_parts>>
                ELSE \E order \in Perms(AllChunkIds(lexical.results, vector.results)),
                        db_ok \in BOOLEAN,
                        failing \in SUBSET (1..NumLookups(ents, zones)) :
                        Complete(ents, zones, query,
                                 ReciprocalRankFusion(lexical.results, vector.results,
                                                      DefaultTopK * 2, order),
                                 db_ok, failing)
    /\ UNCHANGED <<candidates, text, document, chunk_outcome, chunks>>
    /\ UNCHANGED <<bm25Vars, threadVars, store, native, fallback, statutes>>

NextRAG == Process

SpecRAG == InitRAG /\ [][NextRAG]_vars

----------------------------------------------------------------------------
(* Claims about DynamicLegalRAG.process (checked under SpecRAG) *)

ProcessReturned == called = "process" /\ outcome = "returned"

\* the place of a kind of part in the assembled context
PartRank(kind) ==
    CASE kind = "excerpts_header" -> 1
      [] kind = "excerpt" -> 2
      [] kind = "legal_sections" -> 3
      [] kind = "dark_zone_resolutions" -> 4
      [] kind = "original" -> 5

PartsOfKind(kind) == {i \in DOMAIN context_parts : context_parts[i].kind = kind}

\* the lookups process made for the dark-zone resolutions
ResolutionLookups ==
    {i \in DOMAIN lookups :
        i > (IF entities # <<>> THEN Len(AllSections(entities, dark_zones)) ELSE 0)}

\* C21: the assembled context lists its parts in the fixed order retrieved
\* excerpts, legal-section text, dark-zone resolutions, original input cut
\* to its first 1000 characters; a part that is absent is skipped without
\* changing the order of the others; the original-input part is always
\* there and always last.
C21_ContextPartsInFixedOrder ==
    ProcessReturned =>
        /\ \A i, j \in DOMAIN context_parts :
              i < j => /\ PartRank(context_parts[i].kind) <= PartRank(context_parts[j].kind)
                       /\ PartRank(context_parts[i].kind) = PartRank(context_parts[j].kind)
                              => context_parts[i].kind = "excerpt"
        /\ context_parts # <<>>
        /\ context_parts[Len(context_parts)] =
              [kind |-> "original", chars |-> Min(TextLength(text), 1000)]
        /\ Cardinality(PartsOfKind("excerpts_header")) = (IF chunk_contents # <<>> THEN 1 ELSE 0)
        /\ Cardinality(PartsOfKind("excerpt")) = Len(chunk_contents)
        /\ \A i \in PartsOfKind("excerpt") :
              context_parts[i].chunk_id = chunk_contents[context_parts[i].number]
        /\ Cardinality(PartsOfKind("legal_sections")) =
              (IF legal_sections_context # <<>> THEN 1 ELSE 0)
        /\ \A i \in PartsOfKind("legal_sections") :
              context_parts[i].entries = legal_sections_context
        /\ Cardinality(PartsOfKind("dark_zone_resolutions")) =
              (IF \E i \in ResolutionLookups :
                     /\ ~lookups[i].raised
                     /\ <<lookups[i].act, lookups[i].section_number>> \in statutes
               THEN 1 ELSE 0)

\* a context with all four parts whose input is longer than 1000 characters
C21_Witness ==
    /\ ProcessReturned
    /\ TextLength(text) > 1000
    /\ Len(chunk_contents) = 2
    /\ PartsOfKind("legal_sections") # {}
    /\ PartsOfKind("dark_zone_resolutions") # {}
    /\ context_parts[Len(context_parts)].chars = 1000

\* the retrieval of the process call raised: the embedder failed, or the
\* pgvector query and its fallback both did
RetrievalRaised == ~env.encode_ok \/ (~env.native_ok /\ ~env.fallback_ok)

\* the lookups process made for the [LEGAL SECTIONS] block
BlockLookups == SubSeq(lookups, 1, Len(lookups) - Cardinality(ResolutionLookups))

\* the section references process looks up, in call order: those of the
\* block, then those of the dark zones that get resolved
References ==
    (IF entities # <<>> THEN AllSections(entities, dark_zones) ELSE <<>>)
    \o [i \in 1..Min(3, Len(dark_zones)) |-> dark_zones[i].section_entity]

\* C22: a statute lookup that fails for one section reference is skipped for
\* that reference only: the lookups of the other references still run and
\* process still returns its result, whatever subset of the lookups fails.
C22_FailedLookupSkipsOneReferenceOnly ==
    (called = "process" /\ ~RetrievalRaised) =>
        /\ outcome = "returned"
        /\ Len(lookups) = Len(References)
        /\ \A i \in DOMAIN lookups :
              /\ lookups[i].act = MetadataGet(References[i].metadata, "act", "None")
              /\ lookups[i].section_number =
                    MetadataGet(References[i].metadata, "section_number", "None")
        /\ LET found == SelectSeq(BlockLookups,
                                  LAMBDA c : ~c.raised /\ <<c.act, c.section_number>> \in statutes)
           IN legal_sections_context =
                 [i \in 1..Min(5, Len(found)) |-> <<found[i].act, found[i].section_number>>]

\* a process call whose first lookup fails and whose second one finds its section
C22_Witness ==
    /\ ProcessReturned
    /\ Len(BlockLookups) >= 2
    /\ lookups[1].raised
    /\ ~lookups[2].raised
    /\ legal_sections_context # <<>>
    /\ \E i \in ResolutionLookups : lookups[i].raised

\* C30: the legal-section block holds at most 5 statute entries and never
\* the same (act, section_number) twice, also when a LegalSection entity is
\* the section_entity of a dark zone as well.
C30_AtMostFiveDistinctStatutes ==
    ProcessReturned =>
        /\ Len(legal_sections_context) <= 5
        /\ \A i, j \in DOMAIN legal_sections_context :
              i # j => legal_sections_context[i] # legal_sections_context[j]

====
